---- MODULE Spec2Model ----
(***************************************************************************)
(* Query/indexing runtime of CodeCompass: the indexing orchestrator        *)
(* (index_repo / sync_repo, indexer child processes, job rows, startup     *)
(* sweep) and the schema-gated query path (load_index_runtime,             *)
(* locate_symbol, search_code), served by a stdio and an HTTP transport.   *)
(***************************************************************************)
EXTENDS Integers, FiniteSets, Sequences, TLC

\* ---------------------------------------------------------------- bounds
MaxJobs == 2
MaxNameLen == 2

JobIds == 1..MaxJobs
Projects == {"p1", "p2"}
DefaultProject == "p1"
Servers == {"stdio", "http"}
IndexTools == {"index_repo", "sync_repo"}
QueryTools == {"locate_symbol", "search_code"}
QueryOutcomes == {"Ok", "SchemaMigrationRequired", "CorruptManifest", "Other"}

VARIABLES
    jobs,        \* jobs table of the relational store: job id -> row
    proc,        \* indexer child processes: job id -> [phase, project]
    server,      \* transport processes: "down" | "serving"
    registered,  \* project_ids that have a Project row
    disk,        \* state of the on-disk index directory
    resp,        \* the last tool response written by a server
    vcs,         \* working tree of the workspace: HEAD branch and commit
    default_ref, \* Project.default_ref of the workspace's project row
    branch_state,\* branch_state table of the project: ref -> last_indexed_commit
    out,         \* the last result of a ref-resolver / freshness-oracle call
    freshness_cfg, \* the freshness_policy of the loaded configuration
    router_cfg,  \* the multi-workspace configuration of the process
    stdio,       \* the stdio loop: lines on stdin, replies on stdout, position
    generation,  \* index/manifest.json: generations published since start
    disk2,       \* state of the index directory of the second project
    prewarm_status, \* HttpState.prewarm_status: the prewarm atomic
    now,         \* the monotonic clock (Instant::now), in ticks
    health_cache,\* HttpState.health_cache: None or (cached_at, payload)
    hreq         \* GET /health requests in flight: thread -> position

\* The state health aggregation reads besides the store.
hvars == <<disk2, prewarm_status, now, health_cache, hreq>>

\* The state the ref resolver and the freshness oracle read.
aux == <<vcs, default_ref, branch_state, out, freshness_cfg, router_cfg, stdio, generation, hvars>>

vars == <<jobs, proc, server, registered, disk, resp, aux>>

\* ------------------------------------------------------- health state
\* PrewarmState: the values of the atomic byte.
PREWARM_PENDING == 0
PREWARM_IN_PROGRESS == 1
PREWARM_COMPLETE == 2
PREWARM_FAILED == 3
PREWARM_SKIPPED == 4
\* const HEALTH_CACHE_TTL: Duration = Duration::from_secs(1)
HEALTH_CACHE_TTL == 1
\* Clock resolution and horizon.
TicksPerSecond == 2
MaxTime == 4
\* The blocking workers that serve GET /health concurrently.
HealthThreads == {"w1", "w2"}
NoCache == [present |-> FALSE]
IdleReq == [phase |-> "idle"]
\* WorkspaceConfig of a server without multi-workspace support.
SingleWorkspace == [enabled |-> FALSE, on_demand_indexing |-> FALSE]
\* No stdio loop is running.
StdioIdle ==
    [input |-> <<>>, pos |-> 0, output |-> <<>>, flushed |-> 0, pc |-> "done",
     pending |-> [none |-> TRUE], read_error |-> FALSE, write_error |-> FALSE]

\* ------------------------------------------------------- refs and commits
None == [present |-> FALSE, value |-> <<>>]
Some(v) == [present |-> TRUE, value |-> v]
Commits == {"A", "B"}
NoCommit == "none"
\* constants::REF_LIVE
REF_LIVE == <<"l", "i", "v", "e">>
NoOut == [op |-> "none"]

\* branch_state.rs upsert_branch_state: INSERT .. ON CONFLICT(repo, ref) DO
\* UPDATE; the row of the ref now carries the given last_indexed_commit.
upsert_branch_state(bs, ref, commit) ==
    [r \in DOMAIN bs \cup {ref} |-> IF r = ref THEN commit ELSE bs[r]]

\* A server run with --no-prewarm that has served no GET /health yet.
HealthIdle ==
    /\ disk2 = "no_dir"
    /\ prewarm_status = PREWARM_SKIPPED
    /\ now = 0
    /\ health_cache = NoCache
    /\ hreq = [t \in HealthThreads |-> IdleReq]

\* A workspace that is not a repository, with an empty project row.
AuxIdle ==
    /\ vcs = [branch |-> None, commit |-> NoCommit]
    /\ default_ref = <<>>
    /\ branch_state = <<>>
    /\ out = NoOut
    /\ freshness_cfg = "permissive"
    /\ router_cfg = SingleWorkspace
    /\ stdio = StdioIdle
    /\ generation = 0
    /\ HealthIdle

\* ------------------------------------------------------------- job rows
NoRow == [project |-> "none", status |-> "absent"]
NonTerminal == {"queued", "running"}
Terminal == {"published", "failed", "interrupted"}

NoProc == [phase |-> "none", project |-> "none"]

\* Rows of project p that are in a non-terminal status.
ActiveJobs(t, p) == {j \in JobIds : t[j].project = p /\ t[j].status \in NonTerminal}

\* jobs::get_active_job(conn, project_id): the non-terminal rows it may return.
get_active_job(t, p) == ActiveJobs(t, p)

\* A check that looks at running rows only and misses queued ones.
has_active_job_running_only(t, p) ==
    \E j \in JobIds : t[j].project = p /\ t[j].status = "running"

\* server.rs has_active_job: get_active_job(..).ok().flatten().is_some()
has_active_job(t, p) == get_active_job(t, p) # {}

\* server.rs is_project_registered: project::get_by_root(..).is_some()
is_project_registered(reg, p) == p \in reg

\* A sweep that reports every interrupted row, not the rows it transitioned.
mark_interrupted_jobs_cumulative(t) ==
    [rows  |-> [j \in JobIds |->
                  IF t[j].status = "running"
                  THEN [t[j] EXCEPT !.status = "interrupted"]
                  ELSE t[j]],
     count |-> Cardinality({j \in JobIds : t[j].status \in {"running", "interrupted"}})]

\* jobs::mark_interrupted_jobs: every running row becomes interrupted; returns the count.
mark_interrupted_jobs(t) ==
    [rows  |-> [j \in JobIds |->
                  IF t[j].status = "running"
                  THEN [t[j] EXCEPT !.status = "interrupted"]
                  ELSE t[j]],
     count |-> Cardinality({j \in JobIds : t[j].status = "running"})]

\* ------------------------------------------------------------ responses
NoResp ==
    [server |-> "none", tool |-> "none", project |-> "none", code |-> "none",
     job_id |-> 0, spawned |-> FALSE, active_job |-> 0,
     index_status |-> "none", reason |-> "none", executed |-> FALSE]

Reply(s, tool, p, code) ==
    [NoResp EXCEPT !.server = s, !.tool = tool, !.project = p, !.code = code]

\* ids::new_job_id: a fresh id (no process and no row uses it yet).
FreshIds == {j \in JobIds : proc[j].phase = "none" /\ jobs[j] = NoRow}
new_job_id == CHOOSE j \in FreshIds : \A k \in FreshIds : j <= k

\* The projects a transport can route a request to: the stdio loop serves its
\* own workspace only, the HTTP router resolves the workspace argument.
Routable(s) == IF s = "stdio" THEN {DefaultProject} ELSE Projects

\* ------------------------------------------------- index runtime loader
DiskStates == {"no_dir", "no_marker", "bad_marker", "old_schema",
               "shard_broken", "io_denied", "ok"}

\* IndexSet::open_existing(data_dir): Ok, or the StateError it fails with.
open_existing(d) ==
    CASE d \in {"no_dir", "no_marker"} -> "IoNotFound"
      [] d = "bad_marker"              -> "CorruptManifest"
      [] d = "old_schema"              -> "SchemaMigrationRequired"
      [] d = "shard_broken"            -> "Tantivy"
      [] d = "io_denied"               -> "IoOther"
      [] OTHER                         -> "Ok"

\* A classification that drops the ErrorKind::NotFound guard: every I/O
\* error counts as a missing index.
classify_any_io_as_not_indexed(err) ==
    CASE err \in {"IoNotFound", "IoOther"} ->
           [schema_status |-> "NotIndexed", reason |-> "No index found"]
      [] err = "SchemaMigrationRequired" ->
           [schema_status |-> "ReindexRequired", reason |-> "Index schema is incompatible"]
      [] err = "CorruptManifest" ->
           [schema_status |-> "CorruptManifest", reason |-> "Index appears corrupted"]
      [] OTHER ->
           [schema_status |-> "CorruptManifest", reason |-> "Index open failed"]

\* server.rs classify_index_open_error
classify_index_open_error(err) ==
    CASE err = "IoNotFound" ->
           [schema_status |-> "NotIndexed", reason |-> "No index found"]
      [] err = "SchemaMigrationRequired" ->
           [schema_status |-> "ReindexRequired", reason |-> "Index schema is incompatible"]
      [] err = "CorruptManifest" ->
           [schema_status |-> "CorruptManifest", reason |-> "Index appears corrupted"]
      [] err = "Tantivy" ->
           [schema_status |-> "CorruptManifest", reason |-> "Index open failed"]
      [] OTHER ->
           [schema_status |-> "CorruptManifest", reason |-> "Index open failed"]

\* server.rs load_index_runtime
load_index_runtime(d) ==
    IF open_existing(d) = "Ok"
    THEN [index_set |-> TRUE, schema_status |-> "Compatible",
          compatibility_reason |-> "None"]
    ELSE LET c == classify_index_open_error(open_existing(d))
         IN  [index_set |-> FALSE, schema_status |-> c.schema_status,
              compatibility_reason |-> c.reason]

\* server.rs build_metadata: the index_status carried by ProtocolMetadata.
build_metadata(schema_status) ==
    CASE schema_status = "NotIndexed"      -> "not_indexed"
      [] schema_status = "ReindexRequired" -> "reindex_required"
      [] schema_status = "CorruptManifest" -> "corrupt_manifest"
      [] OTHER                             -> "compatible"

\* Every tool reply carries the metadata built for the request.
WithMetadata(r) ==
    [r EXCEPT !.index_status = build_metadata(load_index_runtime(disk).schema_status)]

\* ------------------------------------------------------ string arguments
Chars == {" ", "a"}
Whitespace == {" "}
Names == UNION {[1..n -> Chars] : n \in 0..MaxNameLen}
Arguments == {[present |-> FALSE, value |-> <<>>]}
             \cup {[present |-> TRUE, value |-> v] : v \in Names}

RECURSIVE trim_start(_)
trim_start(str) ==
    IF str = <<>> THEN str
    ELSE IF Head(str) \in Whitespace THEN trim_start(Tail(str)) ELSE str

RECURSIVE trim_end(_)
trim_end(str) ==
    IF str = <<>> THEN str
    ELSE IF str[Len(str)] \in Whitespace
         THEN trim_end(SubSeq(str, 1, Len(str) - 1)) ELSE str

\* str::trim
trim(str) == trim_end(trim_start(str))

\* arguments.get(key).and_then(|v| v.as_str()).unwrap_or("")
arg_str(a) == IF a.present THEN a.value ELSE <<>>

\* The check without the trim: whitespace-only text passes.
is_blank_untrimmed(str) == str = <<>>

\* name.trim().is_empty() / query.trim().is_empty()
is_blank(str) == trim(str) = <<>>

\* server.rs map_state_error: the domain code of a failed query.
map_state_error(err) ==
    IF err \in {"SchemaMigrationRequired", "CorruptManifest"}
    THEN "index_incompatible" ELSE "internal_error"

Init ==
    /\ jobs = [j \in JobIds |-> NoRow]
    /\ proc = [j \in JobIds |-> NoProc]
    /\ server = [s \in Servers |-> "down"]
    /\ registered = {}
    /\ disk = "no_dir"
    /\ resp = NoResp
    /\ AuxIdle

\* ---------------------------------------------------------- environment
\* `codecompass init` / the bootstrap path creates the Project row.
RegisterProject(p) ==
    /\ p \notin registered
    /\ registered' = registered \cup {p}
    /\ UNCHANGED <<aux, jobs, proc, server, disk, resp>>

\* ----------------------------------------------------------- transports
\* server.rs run_server: the stdio loop starts serving; it opens the store
\* per request and performs no startup sweep.
run_server ==
    /\ server["stdio"] = "down"
    /\ server' = [server EXCEPT !["stdio"] = "serving"]
    /\ resp' = IF resp.server = "stdio" THEN NoResp ELSE resp
    /\ UNCHANGED <<aux, jobs, proc, registered, disk>>

\* http.rs run_http_server: mark_interrupted_jobs, then serve.
run_http_server ==
    /\ server["http"] = "down"
    /\ jobs' = mark_interrupted_jobs(jobs).rows
    /\ server' = [server EXCEPT !["http"] = "serving"]
    /\ resp' = IF resp.server = "http" THEN NoResp ELSE resp
    /\ UNCHANGED <<aux, proc, registered, disk>>

\* A transport process exits (stdin closed, signal, crash); the indexer
\* children it spawned are detached and keep running.
ServerExit(s) ==
    /\ server[s] = "serving"
    /\ server' = [server EXCEPT ![s] = "down"]
    /\ UNCHANGED <<aux, jobs, proc, registered, disk, resp>>

\* --------------------------------------------------------- orchestrator
\* A handler that records the job it starts in the jobs table.
handle_index_or_sync_inserts_row(s, tool, p, spawn_ok) ==
    /\ server[s] = "serving"
    /\ p \in Routable(s)
    /\ IF ~is_project_registered(registered, p)
       THEN /\ resp' = WithMetadata(Reply(s, tool, p, "project_not_found"))
            /\ proc' = proc /\ jobs' = jobs
       ELSE IF has_active_job(jobs, p)
       THEN /\ resp' = WithMetadata(Reply(s, tool, p, "index_in_progress"))
            /\ proc' = proc /\ jobs' = jobs
       ELSE IF spawn_ok
       THEN /\ FreshIds # {}
            /\ proc' = [proc EXCEPT ![new_job_id] =
                          [phase |-> "spawned", project |-> p]]
            /\ jobs' = [jobs EXCEPT ![new_job_id] =
                          [project |-> p, status |-> "queued"]]
            /\ resp' = WithMetadata([Reply(s, tool, p, "running") EXCEPT
                          !.job_id = new_job_id, !.spawned = TRUE])
       ELSE /\ resp' = WithMetadata(Reply(s, tool, p, "internal_error"))
            /\ proc' = proc /\ jobs' = jobs
    /\ UNCHANGED <<aux, server, registered, disk>>

\* index_tools.rs handle_index_or_sync (the same arm is inlined in
\* server.rs handle_tool_call): preconditions, spawn, reply.  The handler
\* writes no job row; the child creates its own.
handle_index_or_sync(s, tool, p, spawn_ok) ==
    /\ server[s] = "serving"
    /\ p \in Routable(s)
    /\ IF ~is_project_registered(registered, p)
       THEN /\ resp' = WithMetadata(Reply(s, tool, p, "project_not_found"))
            /\ proc' = proc
       ELSE IF has_active_job(jobs, p)
       THEN /\ resp' = WithMetadata(Reply(s, tool, p, "index_in_progress"))
            /\ proc' = proc
       ELSE IF spawn_ok
       THEN /\ FreshIds # {}
            /\ proc' = [proc EXCEPT ![new_job_id] =
                          [phase |-> "spawned", project |-> p]]
            /\ resp' = WithMetadata([Reply(s, tool, p, "running") EXCEPT
                          !.job_id = new_job_id, !.spawned = TRUE])
       ELSE /\ resp' = WithMetadata(Reply(s, tool, p, "internal_error"))
            /\ proc' = proc
    /\ UNCHANGED <<aux, jobs, server, registered, disk>>

\* status_tools.rs handle_index_status: reports the active job, if any.
handle_index_status(s, p) ==
    /\ server[s] = "serving"
    /\ p \in Routable(s)
    /\ \E a \in (IF get_active_job(jobs, p) = {} THEN {0} ELSE get_active_job(jobs, p)) :
         resp' = WithMetadata([Reply(s, "index_status", p, "ok") EXCEPT !.active_job = a])
    /\ UNCHANGED <<aux, jobs, proc, server, registered, disk>>

\* ------------------------------------------------- indexer child process
\* The child creates its own job row under CODECOMPASS_JOB_ID.
ChildCreateRow(j) ==
    /\ proc[j].phase = "spawned"
    /\ proc' = [proc EXCEPT ![j].phase = "queued"]
    /\ jobs' = [jobs EXCEPT ![j] = [project |-> proc[j].project, status |-> "queued"]]
    /\ UNCHANGED <<aux, server, registered, disk, resp>>

\* The child starts writing the index and updates its row to running.
ChildStart(j) ==
    /\ proc[j].phase = "queued"
    /\ proc' = [proc EXCEPT ![j].phase = "writing"]
    /\ jobs' = [jobs EXCEPT ![j].status = "running"]
    /\ UNCHANGED <<aux, server, registered, disk, resp>>

\* The child ends its job: it publishes (atomic swap of the new generation)
\* or fails, and writes the terminal status to its row; a published job of
\* a repository records the indexed commit of the checked-out branch.
ChildFinish(j, outcome) ==
    /\ proc[j].phase = "writing"
    /\ proc' = [proc EXCEPT ![j].phase = "exited"]
    /\ jobs' = [jobs EXCEPT ![j].status = outcome]
    /\ disk' = IF outcome = "published" /\ proc[j].project = DefaultProject
               THEN "ok" ELSE disk
    /\ branch_state' =
         IF /\ outcome = "published" /\ proc[j].project = DefaultProject
            /\ vcs.branch.present /\ vcs.commit # NoCommit
         THEN upsert_branch_state(branch_state, vcs.branch.value, vcs.commit)
         ELSE branch_state
    /\ generation' = IF outcome = "published" /\ proc[j].project = DefaultProject
                     THEN generation + 1 ELSE generation
    /\ UNCHANGED <<server, registered, resp, vcs, default_ref, out,
                   freshness_cfg, router_cfg, stdio, hvars>>

\* The child dies (kill, power loss) without touching its row again.
ChildCrash(j) ==
    /\ proc[j].phase \in {"spawned", "queued", "writing"}
    /\ proc' = [proc EXCEPT ![j].phase = "exited"]
    /\ UNCHANGED <<aux, jobs, server, registered, disk, resp>>

Next ==
    \/ \E p \in Projects : RegisterProject(p)
    \/ run_server
    \/ run_http_server
    \/ \E s \in Servers : ServerExit(s)
    \/ \E s \in Servers, tool \in IndexTools, p \in Projects, ok \in BOOLEAN :
         handle_index_or_sync(s, tool, p, ok)
    \/ \E s \in Servers, p \in Projects : handle_index_status(s, p)
    \/ \E j \in JobIds : ChildCreateRow(j)
    \/ \E j \in JobIds : ChildStart(j)
    \/ \E j \in JobIds, o \in {"published", "failed"} : ChildFinish(j, o)
    \/ \E j \in JobIds : ChildCrash(j)

Spec == Init /\ [][Next]_vars

\* ------------------------------------------------------------ query path
\* An error reply that names every non-compatible index index_incompatible.
tool_compatibility_error_always_incompatible(s, tool, p, rt, reg) ==
    [Reply(s, tool, p, "index_incompatible") EXCEPT !.reason = rt.compatibility_reason]

\* server.rs / shared.rs tool_compatibility_error
tool_compatibility_error(s, tool, p, rt, reg) ==
    IF rt.schema_status = "NotIndexed" /\ ~is_project_registered(reg, p)
    THEN Reply(s, tool, p, "project_not_found")
    ELSE [Reply(s, tool, p, "index_incompatible") EXCEPT
            !.reason = rt.compatibility_reason]

\* A server that gates on the status it loaded when it started, over the
\* missing index of that moment.
handle_tool_call_startup_status(s, tool, p, a, qres) ==
    /\ server[s] = "serving"
    /\ s = "stdio"
    /\ p \in Routable(s)
    /\ LET rt   == load_index_runtime("no_dir")
           name == arg_str(a)
       IN  resp' = [(IF is_blank(name)
                     THEN Reply(s, tool, p, "invalid_input")
                     ELSE IF ~rt.index_set
                     THEN tool_compatibility_error(s, tool, p, rt, registered)
                     ELSE IF qres = "Ok"
                     THEN [Reply(s, tool, p, "ok") EXCEPT !.executed = TRUE]
                     ELSE [Reply(s, tool, p, map_state_error(qres)) EXCEPT !.executed = TRUE])
                    EXCEPT !.index_status = build_metadata(rt.schema_status)]
    /\ UNCHANGED <<aux, jobs, proc, server, registered, disk>>

\* server.rs handle_tool_call, arms locate_symbol and search_code: the
\* runtime is loaded from disk for the request (run_server), the argument
\* is validated, the schema status gates the query, the query runs.
handle_tool_call(s, tool, p, a, qres) ==
    /\ server[s] = "serving"
    /\ s = "stdio"
    /\ p \in Routable(s)
    /\ LET rt   == load_index_runtime(disk)
           name == arg_str(a)
       IN  resp' = WithMetadata(
             IF is_blank(name)
             THEN Reply(s, tool, p, "invalid_input")
             ELSE IF ~rt.index_set
             THEN tool_compatibility_error(s, tool, p, rt, registered)
             ELSE IF rt.schema_status # "Compatible"
             THEN tool_compatibility_error(s, tool, p, rt, registered)
             ELSE IF qres = "Ok"
             THEN [Reply(s, tool, p, "ok") EXCEPT !.executed = TRUE]
             ELSE [Reply(s, tool, p, map_state_error(qres)) EXCEPT !.executed = TRUE])
    /\ UNCHANGED <<aux, jobs, proc, server, registered, disk>>

\* The index directory changes under the server: removed, damaged, written
\* by another binary version, or published by an indexer.
DiskEvent(d) ==
    /\ d # disk
    /\ disk' = d
    /\ UNCHANGED <<aux, jobs, proc, server, registered, resp>>

InitQuery ==
    /\ jobs = [j \in JobIds |-> NoRow]
    /\ proc = [j \in JobIds |-> NoProc]
    /\ server = [s \in Servers |-> IF s = "stdio" THEN "serving" ELSE "down"]
    /\ registered = {}
    /\ disk = "no_dir"
    /\ resp = NoResp
    /\ AuxIdle

NextQuery ==
    \/ RegisterProject(DefaultProject)
    \/ \E d \in DiskStates : DiskEvent(d)
    \/ \E tool \in QueryTools, a \in Arguments, q \in QueryOutcomes :
         handle_tool_call("stdio", tool, DefaultProject, a, q)

SpecQuery == InitQuery /\ [][NextQuery]_vars

\* ------------------------------------------ ref resolver, freshness oracle
\* Branch names a repository can have: non-empty, no whitespace.
Branches == {n \in Names : n # <<>> /\ \A i \in 1..Len(n) : n[i] \notin Whitespace}
\* conn: Option<&Connection>: no connection, a working one, or one whose
\* queries fail.
StoreStates == {"none", "ok", "err"}
VcsStates == [branch : {None} \cup {Some(b) : b \in Branches},
              commit : Commits \cup {NoCommit}]
BranchStates == [Branches -> Commits \cup {NoCommit}]

\* vcs::detect_head_branch(workspace): Ok(branch) or Err.
detect_head_branch(v) == v.branch

\* vcs::detect_head_commit(workspace): Ok(commit) or Err.
detect_head_commit(v) == v.commit

\* project::get_by_id(conn, project_id): Ok(Some(row)) carries default_ref.
get_by_id(conn, reg, p, dref) ==
    IF conn = "ok" /\ p \in reg THEN Some(dref) ELSE None

\* branch_state::get_branch_state(conn, project_id, ref): the row's
\* last_indexed_commit, NoCommit when there is no row or the query fails.
get_branch_state(conn, bs, ref) ==
    IF conn = "ok" /\ ref \in DOMAIN bs THEN bs[ref] ELSE NoCommit

\* The oracle without the branch comparison.
is_ref_stale_any_branch(conn, bs, v, ref) ==
    IF conn = "none" THEN FALSE
    ELSE IF get_branch_state(conn, bs, ref) = NoCommit THEN FALSE
    ELSE IF ~detect_head_branch(v).present THEN FALSE
    ELSE IF detect_head_commit(v) = NoCommit THEN FALSE
    ELSE get_branch_state(conn, bs, ref) # detect_head_commit(v)

\* server.rs is_ref_stale
is_ref_stale(conn, bs, v, ref) ==
    IF conn = "none" THEN FALSE
    ELSE IF get_branch_state(conn, bs, ref) = NoCommit THEN FALSE
    ELSE IF ~detect_head_branch(v).present THEN FALSE
    ELSE IF detect_head_branch(v).value # ref THEN FALSE
    ELSE IF detect_head_commit(v) = NoCommit THEN FALSE
    ELSE get_branch_state(conn, bs, ref) # detect_head_commit(v)

\* The resolver with the HEAD branch consulted before the argument.
resolve_tool_ref_head_first(requested_ref, v, conn, reg, p, dref) ==
    IF detect_head_branch(v).present THEN detect_head_branch(v).value
    ELSE IF requested_ref.present THEN requested_ref.value
    ELSE IF get_by_id(conn, reg, p, dref).present
            /\ ~is_blank(get_by_id(conn, reg, p, dref).value)
    THEN get_by_id(conn, reg, p, dref).value
    ELSE REF_LIVE

\* server.rs resolve_tool_ref
resolve_tool_ref(requested_ref, v, conn, reg, p, dref) ==
    IF requested_ref.present THEN requested_ref.value
    ELSE IF detect_head_branch(v).present THEN detect_head_branch(v).value
    ELSE IF get_by_id(conn, reg, p, dref).present
            /\ ~is_blank(get_by_id(conn, reg, p, dref).value)
    THEN get_by_id(conn, reg, p, dref).value
    ELSE REF_LIVE

\* A handler resolves the effective ref of a request (arguments.get("ref")).
\* The resolver and the oracle write nothing: one call per drawn workspace.
CallResolveToolRef(requested_ref, conn) ==
    /\ out = NoOut
    /\ out' = [op |-> "resolve_tool_ref", requested |-> requested_ref,
               conn |-> conn,
               ref |-> resolve_tool_ref(requested_ref, vcs, conn, registered,
                                        DefaultProject, default_ref)]
    /\ UNCHANGED <<jobs, proc, server, registered, disk, resp,
                   vcs, default_ref, branch_state, freshness_cfg, router_cfg, stdio, generation, hvars>>

\* build_metadata asks the oracle about the effective ref.
CallIsRefStale(ref, conn) ==
    /\ out = NoOut
    /\ out' = [op |-> "is_ref_stale", requested |-> Some(ref), conn |-> conn,
               stale |-> is_ref_stale(conn, branch_state, vcs, ref)]
    /\ UNCHANGED <<jobs, proc, server, registered, disk, resp,
                   vcs, default_ref, branch_state, freshness_cfg, router_cfg, stdio, generation, hvars>>

\* Every workspace, project row and branch_state table within the bounds.
InitRef ==
    /\ jobs = [j \in JobIds |-> NoRow]
    /\ proc = [j \in JobIds |-> NoProc]
    /\ server = [s \in Servers |-> IF s = "stdio" THEN "serving" ELSE "down"]
    /\ registered \in {{}, {DefaultProject}}
    /\ disk = "no_dir"
    /\ resp = NoResp
    /\ vcs \in VcsStates
    /\ default_ref \in Names
    /\ branch_state \in BranchStates
    /\ out = NoOut
    /\ freshness_cfg = "permissive"
    /\ router_cfg = SingleWorkspace
    /\ stdio = StdioIdle
    /\ generation = 0
    /\ HealthIdle

NextRef ==
    \/ \E r \in Arguments, c \in StoreStates : CallResolveToolRef(r, c)
    \/ \E r \in Names, c \in StoreStates : CallIsRefStale(r, c)

SpecRef == InitRef /\ [][NextRef]_vars

\* ------------------------------------------------- freshness enforcement
Policies == {"permissive", "advisory", "strict"}
\* The freshness_policy argument of a query: absent or one of the policies.
PolicyArgs == {"absent"} \cup Policies
MainBranch == <<"a">>
FeatureBranch == <<"a", "a">>
\* The ref argument of a query: absent, or a branch name.
RefArgs == {None, Some(MainBranch), Some(FeatureBranch)}
\* The name / query argument of a query: absent, blank, or a word.
QueryArgs == {a \in Arguments : a.present => Len(a.value) = 1}
\* The connection of a request: none, or a working one.
FreshStoreStates == {"none", "ok"}
\* The outcome of the search itself: Ok, or a StateError.
FreshQueryOutcomes == {"Ok", "Other"}

\* resolve_freshness_policy(arguments, config): the argument overrides the
\* configured policy.
resolve_freshness_policy(arg, cfg) == IF arg \in Policies THEN arg ELSE cfg

\* check_freshness_with_scan_params: the verdict of the oracle, with the two
\* commits it compared.
check_freshness_with_scan_params(conn, bs, v, ref) ==
    IF is_ref_stale(conn, bs, v, ref)
    THEN [status |-> "stale",
          last_indexed_commit |-> get_branch_state(conn, bs, ref),
          current_head |-> detect_head_commit(v)]
    ELSE [status |-> "fresh", last_indexed_commit |-> NoCommit,
          current_head |-> NoCommit]

\* A policy mapping that blocks under advisory as well.
\* apply_freshness_policy(policy, freshness_result): the PolicyAction.
apply_freshness_policy(policy, fr) ==
    IF fr.status # "stale" THEN [kind |-> "Proceed"]
    ELSE IF policy = "strict"
    THEN [kind |-> "BlockWithError",
          last_indexed_commit |-> fr.last_indexed_commit,
          current_head |-> fr.current_head]
    ELSE IF policy = "advisory"
    THEN [kind |-> "ProceedWithStaleIndicatorAndSync"]
    ELSE [kind |-> "ProceedWithStaleIndicator"]

\* trigger_async_sync(workspace, ref): fire-and-forget spawn equivalent to
\* sync_repo; a collision with an active job is ignored (nothing spawned).
trigger_async_sync(pr, t, reg, p) ==
    IF is_project_registered(reg, p) /\ ~has_active_job(t, p)
    THEN [pr EXCEPT ![new_job_id] = [phase |-> "spawned", project |-> p]]
    ELSE pr

\* An enforcement whose error data carries the commits swapped.
check_and_enforce_freshness_swapped(arg, cfg, conn, bs, v, ref) ==
    LET policy == resolve_freshness_policy(arg, cfg)
        fr     == check_freshness_with_scan_params(conn, bs, v, ref)
        action == apply_freshness_policy(policy, fr)
    IN  IF action.kind = "BlockWithError"
        THEN [block |-> TRUE, code |-> "index_stale",
              last_indexed_commit |-> action.current_head,
              current_head |-> action.last_indexed_commit,
              sync |-> FALSE, policy |-> policy, freshness |-> fr.status]
        ELSE [block |-> FALSE, code |-> "none",
              last_indexed_commit |-> NoCommit, current_head |-> NoCommit,
              sync |-> action.kind = "ProceedWithStaleIndicatorAndSync",
              policy |-> policy, freshness |-> fr.status]

\* An enforcement that also blocks when the action asks for a sync.
check_and_enforce_freshness_blocks_on_sync(arg, cfg, conn, bs, v, ref) ==
    LET policy == resolve_freshness_policy(arg, cfg)
        fr     == check_freshness_with_scan_params(conn, bs, v, ref)
        action == apply_freshness_policy(policy, fr)
    IN  IF action.kind \in {"BlockWithError", "ProceedWithStaleIndicatorAndSync"}
        THEN [block |-> TRUE, code |-> "index_stale",
              last_indexed_commit |-> fr.last_indexed_commit,
              current_head |-> fr.current_head,
              sync |-> FALSE, policy |-> policy, freshness |-> fr.status]
        ELSE [block |-> FALSE, code |-> "none",
              last_indexed_commit |-> NoCommit, current_head |-> NoCommit,
              sync |-> FALSE, policy |-> policy, freshness |-> fr.status]

\* shared.rs check_and_enforce_freshness: the block response, if any, and
\* whether trigger_async_sync is called.
check_and_enforce_freshness(arg, cfg, conn, bs, v, ref) ==
    LET policy == resolve_freshness_policy(arg, cfg)
        fr     == check_freshness_with_scan_params(conn, bs, v, ref)
        action == apply_freshness_policy(policy, fr)
    IN  IF action.kind = "BlockWithError"
        THEN [block |-> TRUE, code |-> "index_stale",
              last_indexed_commit |-> action.last_indexed_commit,
              current_head |-> action.current_head,
              sync |-> FALSE, policy |-> policy, freshness |-> fr.status]
        ELSE [block |-> FALSE, code |-> "none",
              last_indexed_commit |-> NoCommit, current_head |-> NoCommit,
              sync |-> action.kind = "ProceedWithStaleIndicatorAndSync",
              policy |-> policy, freshness |-> fr.status]

\* query_tools.rs handle_locate_symbol / handle_search_code: the argument
\* is validated, the ref resolved, the schema status gates the query, the
\* freshness policy is enforced, the query runs.
handle_query_tool(tool, a, r, pol, conn, qres) ==
    /\ server["stdio"] = "serving"
    /\ LET p  == DefaultProject
           rt == load_index_runtime(disk)
           effective_ref == resolve_tool_ref(r, vcs, conn, registered, p, default_ref)
           fe == check_and_enforce_freshness(pol, freshness_cfg, conn,
                                             branch_state, vcs, effective_ref)
           reached == ~is_blank(arg_str(a)) /\ rt.index_set
                      /\ rt.schema_status = "Compatible"
       IN  /\ resp' = WithMetadata(
                 IF is_blank(arg_str(a))
                 THEN Reply("stdio", tool, p, "invalid_input")
                 ELSE IF ~rt.index_set \/ rt.schema_status # "Compatible"
                 THEN tool_compatibility_error("stdio", tool, p, rt, registered)
                 ELSE IF fe.block
                 THEN Reply("stdio", tool, p, fe.code)
                 ELSE IF qres = "Ok"
                 THEN [Reply("stdio", tool, p, "ok") EXCEPT !.executed = TRUE]
                 ELSE [Reply("stdio", tool, p, map_state_error(qres)) EXCEPT
                          !.executed = TRUE])
           /\ out' = IF reached
                     THEN [op |-> "check_and_enforce_freshness",
                           ref |-> effective_ref, conn |-> conn,
                           policy_arg |-> pol, policy |-> fe.policy, freshness |-> fe.freshness,
                           last_indexed_commit |-> fe.last_indexed_commit,
                           current_head |-> fe.current_head, sync |-> fe.sync]
                     ELSE NoOut
           /\ IF reached /\ fe.sync
              THEN /\ FreshIds # {}
                   /\ proc' = trigger_async_sync(proc, jobs, registered, p)
              ELSE proc' = proc
    /\ UNCHANGED <<jobs, server, registered, disk,
                   vcs, default_ref, branch_state, freshness_cfg, router_cfg, stdio, generation, hvars>>

\* The working tree changes: a commit, a checkout, the repository removed.
VcsEvent(v) ==
    /\ v # vcs
    /\ vcs' = v
    /\ UNCHANGED <<jobs, proc, server, registered, disk, resp,
                   default_ref, branch_state, out, freshness_cfg, router_cfg, stdio, generation, hvars>>

FreshVcsStates == [branch : {None, Some(MainBranch)},
                   commit : Commits \cup {NoCommit}]

\* A server started over the store of an earlier session: the project is
\* registered, the main branch may have been indexed.
InitFresh ==
    /\ jobs = [j \in JobIds |-> NoRow]
    /\ proc = [j \in JobIds |-> NoProc]
    /\ server = [s \in Servers |-> IF s = "stdio" THEN "serving" ELSE "down"]
    /\ registered = {DefaultProject}
    /\ disk \in {"ok", "no_dir"}
    /\ resp = NoResp
    /\ vcs = [branch |-> Some(MainBranch), commit |-> "A"]
    /\ default_ref = MainBranch
    /\ branch_state \in {bs \in BranchStates :
                           \A b \in Branches \ {MainBranch} : bs[b] = NoCommit}
    /\ out = NoOut
    /\ freshness_cfg \in Policies
    /\ router_cfg = SingleWorkspace
    /\ stdio = StdioIdle
    /\ generation = 0
    /\ HealthIdle

NextFresh ==
    \/ \E v \in FreshVcsStates : VcsEvent(v)
    \/ \E tool \in QueryTools, a \in QueryArgs, r \in RefArgs, pol \in PolicyArgs,
          c \in FreshStoreStates, q \in FreshQueryOutcomes :
         handle_query_tool(tool, a, r, pol, c, q)

SpecFresh == InitFresh /\ [][NextFresh]_vars

\* Queries that rely on the configured policy, with the indexer children
\* that the async syncs start.
NextSync ==
    \/ \E v \in FreshVcsStates : VcsEvent(v)
    \/ \E tool \in QueryTools :
         handle_query_tool(tool, Some(<<"a">>), None, "absent", "ok", "Ok")
    \/ \E j \in JobIds : ChildCreateRow(j)
    \/ \E j \in JobIds : ChildStart(j)
    \/ \E j \in JobIds, o \in {"published", "failed"} : ChildFinish(j, o)
    \/ \E j \in JobIds : ChildCrash(j)

SpecSync == InitFresh /\ [][NextSync]_vars

\* ------------------------------------------------------ health aggregation
\* project::list_projects returns the rows in a fixed order.
ProjectOrder == <<"p1", "p2">>
Rank(p) == CHOOSE i \in 1..Len(ProjectOrder) : ProjectOrder[i] = p
\* The workspace argument of health_check: absent, or the root of a project.
WorkspaceArgs == {"absent"} \cup Projects
HealthStoreStates == {"none", "ok"}
HealthDisks == {"ok", "no_dir"}
\* The row get_active_job returns for each project (0: none).
ActiveJobChoices(t) ==
    {a \in [Projects -> JobIds \cup {0}] :
        \A p \in Projects : IF get_active_job(t, p) = {} THEN a[p] = 0
                            ELSE a[p] \in get_active_job(t, p)}

\* load_index_runtime(config.project_data_dir(project_id)).schema_status
project_schema_status(p, d1, d2) ==
    load_index_runtime(IF p = DefaultProject THEN d1 ELSE d2).schema_status

\* The active_job object: the job of the first project that has one.
first_active_job(listed, act) ==
    LET withJob == {p \in listed : act[p] # 0}
    IN  IF withJob = {} THEN 0
        ELSE act[CHOOSE p \in withJob : \A q \in withJob : Rank(p) <= Rank(q)]

HealthPayload(code, status, aj, t, index_status) ==
    [code |-> code, status |-> status, active_job |-> aj,
     job_status |-> IF aj = 0 THEN "none" ELSE t[aj].status,
     index_status |-> index_status]

\* http.rs build_health_response_uncached, lines 309-321: project_status.
http_project_status(p, act, pw, d1, d2) ==
    IF \/ project_schema_status(p, d1, d2) # "Compatible"
       \/ (p = DefaultProject /\ pw = PREWARM_FAILED)
    THEN "error"
    ELSE IF p = DefaultProject /\ pw = PREWARM_IN_PROGRESS THEN "warming"
    ELSE IF act[p] # 0 THEN "indexing"
    ELSE "ready"

\* An aggregation that never reports indexing.
build_health_response_uncached_never_indexing(conn, reg, t, act, pw, d1, d2) ==
    LET listed == IF conn = "ok" THEN reg ELSE {}
        any_project_error ==
            \/ listed = {}
            \/ \E p \in listed : http_project_status(p, act, pw, d1, d2) = "error"
        overall_status ==
            IF \/ any_project_error
               \/ pw = PREWARM_FAILED
               \/ project_schema_status(DefaultProject, d1, d2) # "Compatible"
            THEN "error"
            ELSE IF pw = PREWARM_IN_PROGRESS THEN "warming"
            ELSE "ready"
    IN  HealthPayload("ok", overall_status, first_active_job(listed, act), t,
            [p \in Projects |->
                IF p \in listed THEN http_project_status(p, act, pw, d1, d2)
                ELSE IF listed = {} /\ p = DefaultProject THEN "error"
                ELSE "absent"])

\* http.rs build_health_response_uncached: the status fields of the body.
build_health_response_uncached(conn, reg, t, act, pw, d1, d2) ==
    LET listed == IF conn = "ok" THEN reg ELSE {}
        any_project_error ==
            \/ listed = {}
            \/ \E p \in listed : http_project_status(p, act, pw, d1, d2) = "error"
        any_project_indexing == \E p \in listed : act[p] # 0
        overall_status ==
            IF \/ any_project_error
               \/ pw = PREWARM_FAILED
               \/ project_schema_status(DefaultProject, d1, d2) # "Compatible"
            THEN "error"
            ELSE IF pw = PREWARM_IN_PROGRESS THEN "warming"
            ELSE IF any_project_indexing THEN "indexing"
            ELSE "ready"
    IN  HealthPayload("ok", overall_status, first_active_job(listed, act), t,
            [p \in Projects |->
                IF p \in listed THEN http_project_status(p, act, pw, d1, d2)
                ELSE IF listed = {} /\ p = DefaultProject THEN "error"
                ELSE "absent"])

\* resolve_project_schema_status: the request's schema status for its own
\* project, the loaded status of the project's data dir for another one.
resolve_project_schema_status(p, d1, d2) == project_schema_status(p, d1, d2)

\* health_tools.rs handle_health_check, lines 133-143: index_status.
tool_project_status(p, act, pw, d1, d2) ==
    IF act[p] # 0 THEN "indexing"
    ELSE IF resolve_project_schema_status(p, d1, d2) # "Compatible" THEN "error"
    ELSE IF p = DefaultProject /\ pw = PREWARM_IN_PROGRESS THEN "warming"
    ELSE IF p = DefaultProject /\ pw = PREWARM_FAILED THEN "error"
    ELSE "ready"

\* health_tools.rs handle_health_check: the status fields of the payload.
health_check_payload(ws, conn, reg, t, act, pw, d1, d2) ==
    IF conn = "ok" /\ ws # "absent" /\ ws \notin reg
    THEN HealthPayload("workspace_not_registered", "none", 0, t,
                       [p \in Projects |-> "absent"])
    ELSE
    LET listed == IF conn # "ok" THEN {}
                  ELSE IF ws # "absent" THEN {ws} ELSE reg
        fallback_status ==
            IF conn # "ok" THEN "error"
            ELSE IF project_schema_status(DefaultProject, d1, d2) # "Compatible"
            THEN "error"
            ELSE IF pw = PREWARM_IN_PROGRESS THEN "warming"
            ELSE IF pw = PREWARM_FAILED THEN "error"
            ELSE "ready"
        any_error_project ==
            IF listed = {} THEN fallback_status = "error"
            ELSE \E p \in listed : tool_project_status(p, act, pw, d1, d2) = "error"
        any_warming_project ==
            IF listed = {} THEN fallback_status = "warming"
            ELSE \E p \in listed : tool_project_status(p, act, pw, d1, d2) = "warming"
        overall_has_active_job == \E p \in listed : act[p] # 0
        overall_status ==
            IF any_error_project THEN "error"
            ELSE IF overall_has_active_job THEN "indexing"
            ELSE IF any_warming_project THEN "warming"
            ELSE "ready"
    IN  HealthPayload("ok", overall_status, first_active_job(listed, act), t,
            [p \in Projects |->
                IF p \in listed THEN tool_project_status(p, act, pw, d1, d2)
                ELSE IF listed = {} /\ p = DefaultProject THEN fallback_status
                ELSE "absent"])

HealthOut(op, ws, conn, act, payload) ==
    [op |-> op, ws |-> ws, conn |-> conn, act |-> act, cached |-> FALSE,
     age |-> 0, payload |-> payload]

\* http.rs 163-165: the cell holds a payload whose cached_at.elapsed() is
\* below HEALTH_CACHE_TTL (time in ticks).
cache_fresh_inclusive(c, t) ==
    c.present /\ t - c.cached_at <= HEALTH_CACHE_TTL * TicksPerSecond
cache_fresh(c, t) ==
    c.present /\ t - c.cached_at < HEALTH_CACHE_TTL * TicksPerSecond

\* http.rs 172: *cache = Some((Instant::now(), payload.clone()))
cache_store(t, payload) ==
    [present |-> TRUE, cached_at |-> t, payload |-> payload]

\* build_health_response run by one request alone while the cell holds no
\* fresh payload: recompute, store, answer.
health_handler(conn, act) ==
    /\ server["http"] = "serving"
    /\ ~cache_fresh(health_cache, now)
    /\ LET payload == build_health_response_uncached(conn, registered, jobs, act,
                                                     prewarm_status, disk, disk2)
       IN  /\ out' = HealthOut("GET /health", "absent", conn, act, payload)
           /\ health_cache' = cache_store(now, payload)
    /\ UNCHANGED <<jobs, proc, server, registered, disk, resp, vcs, default_ref,
                   branch_state, freshness_cfg, router_cfg, stdio, generation, disk2, prewarm_status, now, hreq>>

\* POST / tools/call health_check, served by the same process.
handle_health_check(ws, conn, act) ==
    /\ server["http"] = "serving"
    /\ out' = HealthOut("health_check", ws, conn, act,
                 health_check_payload(ws, conn, registered, jobs, act,
                                      prewarm_status, disk, disk2))
    /\ UNCHANGED <<jobs, proc, server, registered, disk, resp,
                   vcs, default_ref, branch_state, freshness_cfg, router_cfg, stdio, generation, hvars>>

\* prewarm_projects: the prewarm thread starts opening index sets.
prewarm_begin ==
    /\ server["http"] = "serving"
    /\ prewarm_status = PREWARM_PENDING
    /\ prewarm_status' = PREWARM_IN_PROGRESS
    /\ UNCHANGED <<jobs, proc, server, registered, disk, resp, vcs, default_ref,
                   branch_state, out, freshness_cfg, router_cfg, stdio, generation, disk2, now, health_cache, hreq>>

\* prewarm_projects: the prewarm thread ends.
prewarm_end(ok) ==
    /\ prewarm_status = PREWARM_IN_PROGRESS
    /\ prewarm_status' = IF ok THEN PREWARM_COMPLETE ELSE PREWARM_FAILED
    /\ UNCHANGED <<jobs, proc, server, registered, disk, resp, vcs, default_ref,
                   branch_state, out, freshness_cfg, router_cfg, stdio, generation, disk2, now, health_cache, hreq>>

\* The job tables indexers can have left for the registered projects.
JobTables(reg) ==
    [JobIds -> {NoRow} \cup [project : reg,
                             status : {"queued", "running", "published"}]]

\* An HTTP server over any store within the bounds; http.rs 73-85 leaves
\* the prewarm atomic pending (thread spawned) or skipped (--no-prewarm).
InitHealth ==
    /\ registered \in {{}, {"p1"}, {"p1", "p2"}}
    /\ jobs \in JobTables(registered)
    /\ proc = [j \in JobIds |-> NoProc]
    /\ server = [s \in Servers |-> IF s = "http" THEN "serving" ELSE "down"]
    /\ disk \in HealthDisks
    /\ disk2 \in HealthDisks
    /\ resp = NoResp
    /\ vcs = [branch |-> None, commit |-> NoCommit]
    /\ default_ref = <<>>
    /\ branch_state = <<>>
    /\ out = NoOut
    /\ freshness_cfg = "permissive"
    /\ router_cfg = SingleWorkspace
    /\ stdio = StdioIdle
    /\ generation = 0
    /\ prewarm_status \in {PREWARM_PENDING, PREWARM_SKIPPED}
    /\ now = 0
    /\ health_cache = NoCache
    /\ hreq = [t \in HealthThreads |-> IdleReq]

NextHealth ==
    \/ prewarm_begin
    \/ \E ok \in BOOLEAN : prewarm_end(ok)
    \/ \E c \in HealthStoreStates, a \in ActiveJobChoices(jobs) : health_handler(c, a)
    \/ \E w \in WorkspaceArgs, c \in HealthStoreStates, a \in ActiveJobChoices(jobs) :
         handle_health_check(w, c, a)

SpecHealth == InitHealth /\ [][NextHealth]_vars

\* ------------------------------------------------------ prewarm start-up
\* http.rs 72-85: the atomic is created pending; --no-prewarm stores
\* skipped, otherwise the prewarm thread is spawned; then the server serves.
run_http_server_prewarm_inline(no_prewarm) ==
    /\ server["http"] = "down"
    /\ server' = [server EXCEPT !["http"] = "serving"]
    /\ prewarm_status' = IF no_prewarm THEN PREWARM_SKIPPED ELSE PREWARM_COMPLETE
    /\ UNCHANGED <<jobs, proc, registered, disk, resp, vcs, default_ref,
                   branch_state, out, freshness_cfg, router_cfg, stdio, generation, disk2, now, health_cache, hreq>>
run_http_server_prewarm(no_prewarm) ==
    /\ server["http"] = "down"
    /\ server' = [server EXCEPT !["http"] = "serving"]
    /\ prewarm_status' = IF no_prewarm THEN PREWARM_SKIPPED ELSE PREWARM_PENDING
    /\ UNCHANGED <<jobs, proc, registered, disk, resp, vcs, default_ref,
                   branch_state, out, freshness_cfg, router_cfg, stdio, generation, disk2, now, health_cache, hreq>>

\* An HTTP server about to start over any store within the bounds.
InitPrewarm ==
    /\ registered \in {{}, {"p1"}, {"p1", "p2"}}
    /\ jobs \in JobTables(registered)
    /\ proc = [j \in JobIds |-> NoProc]
    /\ server = [s \in Servers |-> "down"]
    /\ disk \in HealthDisks
    /\ disk2 = "ok"
    /\ resp = NoResp
    /\ vcs = [branch |-> None, commit |-> NoCommit]
    /\ default_ref = <<>>
    /\ branch_state = <<>>
    /\ out = NoOut
    /\ freshness_cfg = "permissive"
    /\ router_cfg = SingleWorkspace
    /\ stdio = StdioIdle
    /\ generation = 0
    /\ prewarm_status = PREWARM_PENDING
    /\ now = 0
    /\ health_cache = NoCache
    /\ hreq = [t \in HealthThreads |-> IdleReq]

NextPrewarm ==
    \/ \E no_prewarm \in BOOLEAN : run_http_server_prewarm(no_prewarm)
    \/ prewarm_begin
    \/ \E ok \in BOOLEAN : prewarm_end(ok)
    \/ \E c \in HealthStoreStates, a \in ActiveJobChoices(jobs) : health_handler(c, a)

SpecPrewarm == InitPrewarm /\ [][NextPrewarm]_vars

\* ------------------------------------------------------ the health cache
\* build_health_response run by concurrent blocking workers: the lookup
\* under the lock, the recomputation outside it, the store under the lock.
NoActive == [p \in Projects |-> 0]
CachedOut(c, t) ==
    [op |-> "GET /health", ws |-> "absent", conn |-> "none", act |-> NoActive,
     cached |-> TRUE, age |-> t - c.cached_at, payload |-> c.payload]

\* http.rs 163-168: lock, test the cell, return the clone or fall through.
health_lookup(w) ==
    /\ server["http"] = "serving"
    /\ hreq[w].phase = "idle"
    /\ IF cache_fresh(health_cache, now)
       THEN /\ out' = CachedOut(health_cache, now)
            /\ hreq' = hreq
       ELSE /\ hreq' = [hreq EXCEPT ![w] = [phase |-> "miss"]]
            /\ out' = out
    /\ UNCHANGED <<jobs, proc, server, registered, disk, resp, vcs, default_ref,
                   branch_state, freshness_cfg, router_cfg, stdio, generation, disk2, prewarm_status, now,
                   health_cache>>

\* http.rs 170: build_health_response_uncached, no lock held.
health_compute(w, conn, act) ==
    /\ hreq[w].phase = "miss"
    /\ hreq' = [hreq EXCEPT ![w] =
                  [phase |-> "computed", conn |-> conn, act |-> act,
                   payload |-> build_health_response_uncached(conn, registered,
                                  jobs, act, prewarm_status, disk, disk2)]]
    /\ UNCHANGED <<jobs, proc, server, registered, disk, resp, vcs, default_ref,
                   branch_state, out, freshness_cfg, router_cfg, stdio, generation, disk2, prewarm_status, now,
                   health_cache>>

\* http.rs 171-174: lock, overwrite the cell, answer with the payload.
health_store(w) ==
    /\ hreq[w].phase = "computed"
    /\ health_cache' = cache_store(now, hreq[w].payload)
    /\ out' = HealthOut("GET /health", "absent", hreq[w].conn, hreq[w].act,
                        hreq[w].payload)
    /\ hreq' = [hreq EXCEPT ![w] = IdleReq]
    /\ UNCHANGED <<jobs, proc, server, registered, disk, resp, vcs, default_ref,
                   branch_state, freshness_cfg, router_cfg, stdio, generation, disk2, prewarm_status, now>>

\* The monotonic clock advances.
Tick ==
    /\ now < MaxTime
    /\ now' = now + 1
    /\ UNCHANGED <<jobs, proc, server, registered, disk, resp, vcs, default_ref,
                   branch_state, out, freshness_cfg, router_cfg, stdio, generation, disk2, prewarm_status,
                   health_cache, hreq>>

\* A freshly started HTTP server (http.rs 95: health_cache None) over one
\* registered, indexed project, the prewarm thread spawned.
InitCache ==
    /\ registered = {DefaultProject}
    /\ jobs = [j \in JobIds |-> NoRow]
    /\ proc = [j \in JobIds |-> NoProc]
    /\ server = [s \in Servers |-> IF s = "http" THEN "serving" ELSE "down"]
    /\ disk = "ok"
    /\ disk2 = "ok"
    /\ resp = NoResp
    /\ vcs = [branch |-> None, commit |-> NoCommit]
    /\ default_ref = <<>>
    /\ branch_state = <<>>
    /\ out = NoOut
    /\ freshness_cfg = "permissive"
    /\ router_cfg = SingleWorkspace
    /\ stdio = StdioIdle
    /\ generation = 0
    /\ prewarm_status = PREWARM_PENDING
    /\ now = 0
    /\ health_cache = NoCache
    /\ hreq = [t \in HealthThreads |-> IdleReq]

NextCache ==
    \/ Tick
    \/ prewarm_begin
    \/ \E ok \in BOOLEAN : prewarm_end(ok)
    \/ \E w \in HealthThreads : health_lookup(w)
    \/ \E w \in HealthThreads, c \in HealthStoreStates : health_compute(w, c, NoActive)
    \/ \E w \in HealthThreads : health_store(w)

SpecCache == InitCache /\ [][NextCache]_vars

\* ------------------------------------------- dedup and ranking reasons
\* Strings are sequences of characters; format! concatenates them.
MaxResults == 3
COLON == <<":">>
STABLE_PREFIX == <<"s", "t", "a", "b", "l", "e", ":">>
DecDigits == <<"0", "1", "2", "3", "4", "5", "6", "7", "8", "9">>
\* Display for an unsigned integer: its decimal digits.
RECURSIVE to_string(_)
to_string(n) ==
    IF n < 10 THEN <<DecDigits[n + 1]>>
    ELSE to_string(n \div 10) \o <<DecDigits[(n % 10) + 1]>>

\* The fields of search::SearchResult and locate::LocateResult that the
\* dedup keys read, over paths and names with and without ':'.
ResultPaths == {<<"a">>, <<"a", ":", "1">>}
ResultNames == {<<"n">>, <<"1", ":", "n">>}
StableIds == {<<>>, <<"x">>}
SearchResults ==
    [result_type : {<<"s">>}, path : ResultPaths, line_start : {1}, line_end : {1},
     name : {Some(n) : n \in ResultNames},
     symbol_stable_id : {None} \cup {Some(i) : i \in StableIds}]
LocateResults ==
    [path : ResultPaths, line_start : {1}, line_end : {1},
     name : ResultNames, symbol_stable_id : StableIds]
SeqsUpTo(S, n) == UNION {[1..k -> S] : k \in 0..n}
\* The ranking reasons of the first m results: reasons[k].result_index = k.
RankingReasons(m) == [k \in 1..m |-> [result_index |-> k - 1, score |-> k]]

\* shared.rs 265-278: the key of a search result.
search_key(result) ==
    IF result.symbol_stable_id.present /\ result.symbol_stable_id.value # <<>>
    THEN STABLE_PREFIX \o result.symbol_stable_id.value
    ELSE result.result_type \o COLON \o result.path \o COLON
         \o to_string(result.line_start) \o COLON \o to_string(result.line_end)
         \o COLON \o (IF result.name.present THEN result.name.value ELSE <<>>)

\* shared.rs 296-303: the key of a locate result.
locate_key(result) ==
    IF result.symbol_stable_id = <<>>
    THEN result.path \o COLON \o to_string(result.line_start) \o COLON
         \o to_string(result.line_end) \o COLON \o result.name
    ELSE STABLE_PREFIX \o result.symbol_stable_id

\* The loop of both functions over the keys of the results: seen.insert(key)
\* keeps the result and its index, otherwise suppressed is incremented.
RECURSIVE dedup_loop(_, _, _, _)
dedup_loop(results, keys, index, acc) ==
    IF index > Len(results) THEN acc
    ELSE dedup_loop(results, keys, index + 1,
           IF keys[index] \notin acc.seen
           THEN [seen |-> acc.seen \cup {keys[index]},
                 deduped |-> Append(acc.deduped, results[index]),
                 kept_indices |-> Append(acc.kept_indices, index - 1),
                 suppressed |-> acc.suppressed]
           ELSE [acc EXCEPT !.suppressed = @ + 1])

\* shared.rs 256-285
dedup_search_results_counts_from_one(results) ==
    dedup_loop(results, [i \in 1..Len(results) |-> search_key(results[i])], 1,
               [seen |-> {}, deduped |-> <<>>, kept_indices |-> <<>>, suppressed |-> 1])
dedup_search_results(results) ==
    dedup_loop(results, [i \in 1..Len(results) |-> search_key(results[i])], 1,
               [seen |-> {}, deduped |-> <<>>, kept_indices |-> <<>>, suppressed |-> 0])

\* shared.rs 287-313 (kept_indices is not returned)
dedup_locate_results(results) ==
    dedup_loop(results, [i \in 1..Len(results) |-> locate_key(results[i])], 1,
               [seen |-> {}, deduped |-> <<>>, kept_indices |-> <<>>, suppressed |-> 0])

\* shared.rs 315-329
RECURSIVE align_loop(_, _, _, _, _)
align_loop(reasons, kept_indices, new_index, reindex, aligned) ==
    IF new_index >= Len(kept_indices) THEN aligned
    ELSE LET old_index == kept_indices[new_index + 1]
         IN  align_loop(reasons, kept_indices, new_index + 1, reindex,
               IF old_index >= Len(reasons) THEN aligned
               ELSE Append(aligned,
                      [reasons[old_index + 1] EXCEPT
                         !.result_index = IF reindex THEN new_index ELSE @]))
align_ranking_reasons_to_dedup_keeps_index(reasons, kept_indices) ==
    align_loop(reasons, kept_indices, 0, FALSE, <<>>)
align_ranking_reasons_to_dedup(reasons, kept_indices) ==
    align_loop(reasons, kept_indices, 0, TRUE, <<>>)

\* The search handler dedups the results of a search, or of an earlier
\* dedup, and aligns the ranking reasons.
CallDedupSearch ==
    /\ out.op \in {"search", "dedup_search_results"}
    /\ LET results == IF out.op = "search" THEN out.results ELSE out.deduped
           reasons == IF out.op = "search" THEN out.reasons ELSE out.aligned
           d == dedup_search_results(results)
       IN  out' = [op |-> "dedup_search_results", again |-> out.op # "search",
                   results |-> results, reasons |-> reasons,
                   deduped |-> d.deduped, kept_indices |-> d.kept_indices,
                   suppressed |-> d.suppressed,
                   aligned |-> align_ranking_reasons_to_dedup(reasons, d.kept_indices)]
    /\ UNCHANGED <<jobs, proc, server, registered, disk, resp, vcs, default_ref,
                   branch_state, freshness_cfg, router_cfg, stdio, generation, hvars>>

\* The locate handler dedups the results of a locate, or of an earlier dedup.
CallDedupLocate ==
    /\ out.op \in {"locate", "dedup_locate_results"}
    /\ LET results == IF out.op = "locate" THEN out.results ELSE out.deduped
           d == dedup_locate_results(results)
       IN  out' = [op |-> "dedup_locate_results", again |-> out.op # "locate",
                   results |-> results, deduped |-> d.deduped,
                   suppressed |-> d.suppressed]
    /\ UNCHANGED <<jobs, proc, server, registered, disk, resp, vcs, default_ref,
                   branch_state, freshness_cfg, router_cfg, stdio, generation, hvars>>

\* Any result list of a search (with the reasons of a prefix of it) or of a
\* locate, within the bounds.
InitDedup ==
    /\ jobs = [j \in JobIds |-> NoRow]
    /\ proc = [j \in JobIds |-> NoProc]
    /\ server = [s \in Servers |-> IF s = "stdio" THEN "serving" ELSE "down"]
    /\ registered = {DefaultProject}
    /\ disk = "ok"
    /\ resp = NoResp
    /\ vcs = [branch |-> None, commit |-> NoCommit]
    /\ default_ref = <<>>
    /\ branch_state = <<>>
    /\ freshness_cfg = "permissive"
    /\ router_cfg = SingleWorkspace
    /\ stdio = StdioIdle
    /\ generation = 0
    /\ HealthIdle
    /\ \/ \E rs \in SeqsUpTo(SearchResults, MaxResults), m \in 0..MaxResults :
            /\ m <= Len(rs)
            /\ out = [op |-> "search", results |-> rs, reasons |-> RankingReasons(m)]
       \/ \E rs \in SeqsUpTo(LocateResults, MaxResults) :
            out = [op |-> "locate", results |-> rs]

NextDedup ==
    \/ CallDedupSearch
    \/ CallDedupLocate

SpecDedup == InitDedup /\ [][NextDedup]_vars

\* ------------------------------------------------------ payload safety
\* const DEFAULT_MAX_RESPONSE_BYTES: usize = 64 * 1024
DEFAULT_MAX_RESPONSE_BYTES == 65536
MaxBytes == 8
\* The serialised results are JSON strings without escapes, given by the
\* number of their characters; serde_json::to_vec adds the two quotes.
PayloadLens == {0, 1, 2, DEFAULT_MAX_RESPONSE_BYTES - 6}
item_size(item) == item + 2

\* serde_json of an array: brackets, items, one comma between two items.
RECURSIVE items_size(_)
items_size(items) ==
    IF items = <<>> THEN 0 ELSE item_size(Head(items)) + items_size(Tail(items))
json_array_len(items) ==
    2 + items_size(items) + (IF Len(items) > 1 THEN Len(items) - 1 ELSE 0)

\* shared.rs 341-353: the loop; it stops at the first item that does not fit.
RECURSIVE payload_loop(_, _, _, _)
payload_loop(results, max_bytes, output, used) ==
    IF results = <<>> THEN [output |-> output, truncated |-> FALSE]
    ELSE LET size == item_size(Head(results))
             separator == IF output # <<>> THEN 1 ELSE 0
         IN  IF used + separator + size > max_bytes
             THEN [output |-> output, truncated |-> TRUE]
             ELSE payload_loop(Tail(results), max_bytes,
                               Append(output, Head(results)), used + separator + size)

\* shared.rs 331-362
enforce_payload_safety_limit_ignores_brackets(results, max_bytes) ==
    payload_loop(results,
                 IF max_bytes = 0 THEN DEFAULT_MAX_RESPONSE_BYTES ELSE max_bytes,
                 <<>>, 0)
enforce_payload_safety_limit(results, max_bytes) ==
    payload_loop(results,
                 IF max_bytes = 0 THEN DEFAULT_MAX_RESPONSE_BYTES ELSE max_bytes,
                 <<>>, 2)

\* build_filtered_result_payload hands the serialised results and
\* max_response_bytes to enforce_payload_safety_limit.
CallEnforcePayloadSafetyLimit ==
    /\ out.op = "serialized"
    /\ LET e == enforce_payload_safety_limit(out.results, out.max_bytes)
       IN  out' = [op |-> "enforce_payload_safety_limit", results |-> out.results,
                   max_bytes |-> out.max_bytes, filtered |-> e.output,
                   safety_limit_applied |-> e.truncated]
    /\ UNCHANGED <<jobs, proc, server, registered, disk, resp, vcs, default_ref,
                   branch_state, freshness_cfg, router_cfg, stdio, generation, hvars>>

InitPayload ==
    /\ jobs = [j \in JobIds |-> NoRow]
    /\ proc = [j \in JobIds |-> NoProc]
    /\ server = [s \in Servers |-> IF s = "stdio" THEN "serving" ELSE "down"]
    /\ registered = {DefaultProject}
    /\ disk = "ok"
    /\ resp = NoResp
    /\ vcs = [branch |-> None, commit |-> NoCommit]
    /\ default_ref = <<>>
    /\ branch_state = <<>>
    /\ freshness_cfg = "permissive"
    /\ router_cfg = SingleWorkspace
    /\ stdio = StdioIdle
    /\ generation = 0
    /\ HealthIdle
    /\ \E rs \in SeqsUpTo(PayloadLens, MaxResults), mb \in 0..MaxBytes :
         out = [op |-> "serialized", results |-> rs, max_bytes |-> mb]

NextPayload == CallEnforcePayloadSafetyLimit

SpecPayload == InitPayload /\ [][NextPayload]_vars

\* ------------------------------------------------- tools/call envelopes
ReadTools == {"get_symbol_hierarchy", "find_related_symbols", "get_code_context",
              "get_file_outline"}
KnownTools == QueryTools \cup ReadTools \cup IndexTools \cup {"index_status", "health_check"}
ToolNames == KnownTools \cup {"no_such_tool"}
\* The workspace argument: absent, the root of a project, or a path outside
\* every allowed root.
WorkspaceHints == {"absent", "p2", "outside"}
\* enabled = false disables on-demand indexing as well.
RouterConfigs == {c \in [enabled : BOOLEAN, on_demand_indexing : BOOLEAN] :
                    c.on_demand_indexing => c.enabled}
\* What the resolved on_demand_indexing flag stands for while on-demand
\* indexing is configured: the project had no row, or no compatible index.
FlagReadings == {"no_row", "no_index"}
\* What a handler meets once dispatched: the name/query argument, the
\* outcome of the query, the outcome of the spawn.
ToolInputs(tool) ==
    IF tool \in QueryTools \cup ReadTools
    THEN {[a |-> None, qres |-> "Ok", spawn_ok |-> TRUE],
          [a |-> Some(<<"a">>), qres |-> "Ok", spawn_ok |-> TRUE],
          [a |-> Some(<<"a">>), qres |-> "Other", spawn_ok |-> TRUE]}
    ELSE IF tool \in IndexTools
    THEN {[a |-> None, qres |-> "Ok", spawn_ok |-> b] : b \in BOOLEAN}
    ELSE {[a |-> None, qres |-> "Ok", spawn_ok |-> TRUE]}

is_status_tool(tool_name) == tool_name \in {"index_status", "health_check"}

\* JsonRpcResponse::success / JsonRpcResponse::error
JsonRpcSuccess(result) == [rpc |-> "result", text |-> result]
JsonRpcError(code) == [rpc |-> "error", code |-> code, text |-> [none |-> TRUE]]

\* shared.rs 116-123
tool_text_response(payload) == JsonRpcSuccess(payload)

\* shared.rs 94-113
tool_error_response_without_metadata(code, metadata) ==
    tool_text_response([error |-> [code |-> code]])
tool_error_response(code, metadata) ==
    tool_text_response([error |-> [code |-> code], metadata |-> metadata])

\* ProtocolMetadata as build_metadata fills it, and ProtocolMetadata::syncing.
ProtocolMetadata(rt) == [index_status |-> build_metadata(rt.schema_status)]
ProtocolMetadataSyncing == [index_status |-> "indexing"]

\* tool_calls.rs 63-168 handle_tool_call with the handlers it dispatches to.
handle_tool_call_response(tool_name, in, ws, rt, reg, t, p) ==
    LET metadata == ProtocolMetadata(rt)
    IN  IF tool_name = "health_check"
        THEN IF ws # "absent" /\ ws \notin reg
             THEN tool_error_response("workspace_not_registered", metadata)
             ELSE tool_text_response([status |-> "health", metadata |-> metadata])
        ELSE IF tool_name \in QueryTools \cup ReadTools
        THEN IF is_blank(arg_str(in.a))
             THEN tool_error_response("invalid_input", metadata)
             ELSE IF ~rt.index_set \/ rt.schema_status # "Compatible"
             THEN tool_error_response(
                      tool_compatibility_error("http", tool_name, p, rt, reg).code, metadata)
             ELSE IF in.qres = "Ok"
             THEN tool_text_response([results |-> "results", metadata |-> metadata])
             ELSE tool_error_response(map_state_error(in.qres), metadata)
        ELSE IF tool_name = "index_status"
        THEN tool_text_response([status |-> "index_status", metadata |-> metadata])
        ELSE IF tool_name \in IndexTools
        THEN IF ~is_project_registered(reg, p)
             THEN tool_error_response("project_not_found", metadata)
             ELSE IF has_active_job(t, p)
             THEN tool_error_response("index_in_progress", metadata)
             ELSE IF in.spawn_ok
             THEN tool_text_response([job_id |-> "job", status |-> "running",
                                      metadata |-> metadata])
             ELSE tool_error_response("internal_error", metadata)
        ELSE JsonRpcError(-32601)

\* The handler spawns an indexer for index_repo / sync_repo.
spawns(tool_name, in, reg, t, p) ==
    /\ tool_name \in IndexTools
    /\ is_project_registered(reg, p)
    /\ ~has_active_job(t, p)
    /\ in.spawn_ok

\* WorkspaceRouter::resolve_workspace, rules 1-6 of the router.
resolve_workspace(ws_param, cfg, reg, d1, d2, reading) ==
    IF ws_param # "absent" /\ ~cfg.enabled
    THEN [ok |-> FALSE, code |-> "workspace_unsupported"]
    ELSE IF ws_param = "outside"
    THEN [ok |-> FALSE, code |-> "workspace_not_allowed"]
    ELSE LET p == IF ws_param = "absent" THEN DefaultProject ELSE ws_param
         IN  [ok |-> TRUE, project_id |-> p,
              should_bootstrap |-> p \notin reg,
              on_demand_indexing |->
                  /\ cfg.on_demand_indexing
                  /\ IF reading = "no_row" THEN p \notin reg
                     ELSE project_schema_status(p, d1, d2) # "Compatible"]

\* workspace_error_to_response: the router's refusal as a domain error.
workspace_error_to_response(e) ==
    tool_error_response(e.code, [index_status |-> "not_indexed"])

\* http.rs 463-493: the synthetic payload is returned for a non-status tool
\* when the resolution says on-demand indexing.
on_demand_short_circuit_by_config(cfg, resolved, tool_name) ==
    cfg.on_demand_indexing /\ ~is_status_tool(tool_name)
on_demand_short_circuit(cfg, resolved, tool_name) ==
    resolved.on_demand_indexing /\ ~is_status_tool(tool_name)

ToolsCallOut(transport, tool, ws, project, dispatched, response) ==
    [op |-> "tools/call", transport |-> transport, tool |-> tool, ws |-> ws,
     project |-> project, dispatched |-> dispatched, rpc |-> response.rpc,
     text |-> response.text]

\* http.rs 440-537 handle_http_request, arm tools/call.
http_tools_call(tool_name, ws_param, in, reading, boot_ok) ==
    /\ server["http"] = "serving"
    /\ LET resolved == resolve_workspace(ws_param, router_cfg, registered,
                                         disk, disk2, reading)
       IN  IF ~resolved.ok
           THEN /\ out' = ToolsCallOut("http", tool_name, ws_param, "none", FALSE,
                                       workspace_error_to_response(resolved))
                /\ UNCHANGED <<registered, proc>>
           ELSE
           LET p == resolved.project_id
               reg == IF resolved.on_demand_indexing /\ resolved.should_bootstrap
                         /\ boot_ok
                      THEN registered \cup {p} ELSE registered
               rt == load_index_runtime(IF p = DefaultProject THEN disk ELSE disk2)
           IN  /\ registered' = reg
               /\ IF on_demand_short_circuit(router_cfg, resolved, tool_name)
                  THEN /\ out' = ToolsCallOut("http", tool_name, ws_param, p, FALSE,
                                   tool_text_response(
                                     [indexing_status |-> "indexing",
                                      result_completeness |-> "partial",
                                      metadata |-> ProtocolMetadataSyncing]))
                       /\ proc' = proc
                  ELSE /\ out' = ToolsCallOut("http", tool_name, ws_param, p, TRUE,
                                   handle_tool_call_response(tool_name, in, ws_param,
                                                             rt, reg, jobs, p))
                       /\ IF spawns(tool_name, in, reg, jobs, p)
                          THEN /\ FreshIds # {}
                               /\ proc' = [proc EXCEPT ![new_job_id] =
                                             [phase |-> "spawned", project |-> p]]
                          ELSE proc' = proc
    /\ UNCHANGED <<jobs, server, disk, resp, vcs, default_ref, branch_state,
                   freshness_cfg, router_cfg, stdio, generation, hvars>>

\* server.rs 105-126 handle_request, arm tools/call: the stdio loop serves
\* its own workspace.
stdio_tools_call(tool_name, in) ==
    /\ server["stdio"] = "serving"
    /\ LET p == DefaultProject
           rt == load_index_runtime(disk)
       IN  /\ out' = ToolsCallOut("stdio", tool_name, "absent", p, TRUE,
                        handle_tool_call_response(tool_name, in, "absent", rt,
                                                  registered, jobs, p))
           /\ IF spawns(tool_name, in, registered, jobs, p)
              THEN /\ FreshIds # {}
                   /\ proc' = [proc EXCEPT ![new_job_id] =
                                 [phase |-> "spawned", project |-> p]]
              ELSE proc' = proc
    /\ UNCHANGED <<jobs, server, registered, disk, resp, vcs, default_ref,
                   branch_state, freshness_cfg, router_cfg, stdio, generation, hvars>>

\* The background index job of a bootstrapped project publishes its index.
IndexerPublishes ==
    /\ "p2" \in registered
    /\ disk2 # "ok"
    /\ disk2' = "ok"
    /\ UNCHANGED <<jobs, proc, server, registered, disk, resp, vcs, default_ref,
                   branch_state, out, freshness_cfg, router_cfg, stdio, generation, prewarm_status,
                   now, health_cache, hreq>>

\* Both transports serve the indexed default workspace; the second workspace
\* is unknown to the store; an index job of the default one may be running.
InitRouter ==
    /\ jobs \in {[j \in JobIds |-> NoRow],
                 [j \in JobIds |-> IF j = 1
                                   THEN [project |-> DefaultProject, status |-> "running"]
                                   ELSE NoRow]}
    /\ proc = [j \in JobIds |-> NoProc]
    /\ server = [s \in Servers |-> "serving"]
    /\ registered = {DefaultProject}
    /\ disk = "ok"
    /\ disk2 = "no_dir"
    /\ resp = NoResp
    /\ vcs = [branch |-> None, commit |-> NoCommit]
    /\ default_ref = <<>>
    /\ branch_state = <<>>
    /\ out = NoOut
    /\ freshness_cfg = "permissive"
    /\ router_cfg \in RouterConfigs
    /\ stdio = StdioIdle
    /\ generation = 0
    /\ prewarm_status = PREWARM_SKIPPED
    /\ now = 0
    /\ health_cache = NoCache
    /\ hreq = [t \in HealthThreads |-> IdleReq]

NextRouter ==
    \/ \E tool \in ToolNames, ws \in WorkspaceHints, reading \in FlagReadings,
          boot_ok \in BOOLEAN :
         \E in \in ToolInputs(tool) : http_tools_call(tool, ws, in, reading, boot_ok)
    \/ \E tool \in ToolNames : \E in \in ToolInputs(tool) : stdio_tools_call(tool, in)
    \/ IndexerPublishes

SpecRouter == InitRouter /\ [][NextRouter]_vars

\* --------------------------------------------------------- the stdio loop
MaxLines == 3
\* A line is a sequence of tokens: a space, a lone brace, or the complete
\* text of a request object: R = {id:1, method:tools/list}, N =
\* {method:notifications/initialized} without id, M = {id:2, method:nope}.
RequestTokens == {"R", "N", "M"}
LineTexts == {<<>>, <<" ">>, <<"{">>, <<"R">>, <<" ", "R">>, <<"R", "R">>,
              <<"N">>, <<"M">>}
JsonRpcRequest(token) ==
    CASE token = "R" -> [id |-> 1, method |-> "tools/list"]
      [] token = "N" -> [id |-> "null", method |-> "notifications/initialized"]
      [] OTHER       -> [id |-> 2, method |-> "nope"]

IsToken(c) == c \notin Whitespace
\* serde_json::from_str::<JsonRpcRequest>: one request object, whitespace
\* around it allowed, nothing else.
from_str(line) ==
    LET tokens == SelectSeq(line, IsToken)
    IN  IF Len(tokens) = 1 /\ tokens[1] \in RequestTokens
        THEN [ok |-> TRUE, request |-> JsonRpcRequest(tokens[1])]
        ELSE [ok |-> FALSE]

\* server.rs 75-135 handle_request, the arms without tool calls.
handle_request(request) ==
    IF request.method \in {"initialize", "notifications/initialized", "tools/list"}
    THEN [id |-> request.id, rpc |-> "result", code |-> 0]
    ELSE [id |-> request.id, rpc |-> "error", code |-> -32601]

\* server.rs 41-43: line.trim().is_empty()
line_is_skipped_untrimmed(line) == line = <<>>
line_is_skipped(line) == is_blank(line)

\* server.rs 45-66: the reply to a line that is not skipped.
reply_to(line) ==
    IF from_str(line).ok THEN handle_request(from_str(line).request)
    ELSE [id |-> "null", rpc |-> "error", code |-> -32700]

\* server.rs 32-43: the next line is read; EOF and a read error end the loop.
ReadLine(read_ok) ==
    /\ server["stdio"] = "serving"
    /\ stdio.pc = "read"
    /\ IF stdio.pos = Len(stdio.input)
       THEN stdio' = [stdio EXCEPT !.pc = "done"]
       ELSE IF ~read_ok
       THEN stdio' = [stdio EXCEPT !.pc = "done", !.read_error = TRUE]
       ELSE LET line == stdio.input[stdio.pos + 1]
            IN  IF line_is_skipped(line)
                THEN stdio' = [stdio EXCEPT !.pos = @ + 1]
                ELSE stdio' = [stdio EXCEPT !.pos = @ + 1, !.pc = "write",
                                 !.pending = reply_to(line)]
    /\ UNCHANGED <<jobs, proc, server, registered, disk, resp, vcs, default_ref,
                   branch_state, out, freshness_cfg, router_cfg, generation, hvars>>

\* server.rs 49 / 65: writeln!(stdout, ..)?
WriteReply(write_ok) ==
    /\ stdio.pc = "write"
    /\ IF write_ok
       THEN stdio' = [stdio EXCEPT !.output = Append(@, stdio.pending), !.pc = "flush"]
       ELSE stdio' = [stdio EXCEPT !.pc = "done", !.write_error = TRUE]
    /\ UNCHANGED <<jobs, proc, server, registered, disk, resp, vcs, default_ref,
                   branch_state, out, freshness_cfg, router_cfg, generation, hvars>>

\* server.rs 50 / 66: stdout.flush()?
FlushReply(flush_ok) ==
    /\ stdio.pc = "flush"
    /\ IF flush_ok
       THEN stdio' = [stdio EXCEPT !.flushed = Len(stdio.output), !.pc = "read"]
       ELSE stdio' = [stdio EXCEPT !.pc = "done", !.write_error = TRUE]
    /\ UNCHANGED <<jobs, proc, server, registered, disk, resp, vcs, default_ref,
                   branch_state, out, freshness_cfg, router_cfg, generation, hvars>>

\* run_server enters its loop over any stdin within the bounds.
InitStdio ==
    /\ jobs = [j \in JobIds |-> NoRow]
    /\ proc = [j \in JobIds |-> NoProc]
    /\ server = [s \in Servers |-> IF s = "stdio" THEN "serving" ELSE "down"]
    /\ registered = {DefaultProject}
    /\ disk = "ok"
    /\ resp = NoResp
    /\ vcs = [branch |-> None, commit |-> NoCommit]
    /\ default_ref = <<>>
    /\ branch_state = <<>>
    /\ out = NoOut
    /\ freshness_cfg = "permissive"
    /\ router_cfg = SingleWorkspace
    /\ generation = 0
    /\ HealthIdle
    /\ \E lines \in SeqsUpTo(LineTexts, MaxLines) :
         stdio = [StdioIdle EXCEPT !.input = lines, !.pc = "read"]

NextStdio ==
    \/ \E read_ok \in BOOLEAN : ReadLine(read_ok)
    \/ \E write_ok \in BOOLEAN : WriteReply(write_ok)
    \/ \E flush_ok \in BOOLEAN : FlushReply(flush_ok)

SpecStdio == InitStdio /\ [][NextStdio]_vars

\* ------------------------------------------- a query while a job publishes
\* server.rs 55-56, http.rs 504-510: each request opens the index and then
\* the store connection.  The handle reads the generation that was current
\* when it was opened; the connection holds no transaction.
query_open(s, tool) ==
    /\ server[s] = "serving"
    /\ IF out.op = "query" THEN out.pc = "done" ELSE TRUE
    /\ out' = [op |-> "query", pc |-> "opened", transport |-> s, tool |-> tool,
               runtime |-> load_index_runtime(disk), index_set |-> generation,
               indexing |-> FALSE, stale |-> FALSE, store_at |-> -1,
               results_at |-> -1, code |-> "none"]
    /\ UNCHANGED <<jobs, proc, server, registered, disk, resp, vcs, default_ref,
                   branch_state, freshness_cfg, router_cfg, stdio, generation, hvars>>

\* server.rs 306-342: build_metadata reads the jobs table and the
\* branch_state row of the ref; without a compatible index the request ends
\* with the compatibility error.  store_at records which published state of
\* the store these reads saw.
query_metadata ==
    /\ out.op = "query" /\ out.pc = "opened"
    /\ IF ~out.runtime.index_set
       THEN out' = [out EXCEPT !.pc = "done",
                      !.code = build_metadata(out.runtime.schema_status)]
       ELSE LET active == has_active_job(jobs, DefaultProject)
            IN  out' = [out EXCEPT !.pc = "metadata",
                          !.indexing = active,
                          !.stale = ~active /\ is_ref_stale("ok", branch_state, vcs, default_ref),
                          !.store_at = generation]
    /\ UNCHANGED <<jobs, proc, server, registered, disk, resp, vcs, default_ref,
                   branch_state, freshness_cfg, router_cfg, stdio, generation, hvars>>

\* server.rs 344-360: the search runs on the handle opened for the request;
\* the response carries its results and the metadata built before.
query_search ==
    /\ out.op = "query" /\ out.pc = "metadata"
    /\ out' = [out EXCEPT !.pc = "done", !.results_at = out.index_set, !.code = "ok"]
    /\ UNCHANGED <<jobs, proc, server, registered, disk, resp, vcs, default_ref,
                   branch_state, freshness_cfg, router_cfg, stdio, generation, hvars>>

\* Both transports serve the registered default project, whose main branch
\* is checked out; a first or a further index job may be in progress.
InitPublish ==
    /\ \E st \in {"none", "queued", "running"} :
         /\ jobs = [j \in JobIds |-> IF j = 1 /\ st # "none"
                                     THEN [project |-> DefaultProject, status |-> st]
                                     ELSE NoRow]
         /\ proc = [j \in JobIds |-> IF j = 1 /\ st # "none"
                                     THEN [phase |-> IF st = "queued" THEN "queued" ELSE "writing",
                                           project |-> DefaultProject]
                                     ELSE NoProc]
    /\ server = [s \in Servers |-> "serving"]
    /\ registered = {DefaultProject}
    /\ disk \in {"ok", "no_dir"}
    /\ resp = NoResp
    /\ vcs \in [branch : {Some(MainBranch)}, commit : Commits]
    /\ default_ref = MainBranch
    /\ \E c \in Commits \cup {NoCommit} :
         /\ disk = "no_dir" => c = NoCommit
         /\ branch_state = [b \in Branches |-> IF b = MainBranch THEN c ELSE NoCommit]
    /\ out = NoOut
    /\ freshness_cfg = "permissive"
    /\ router_cfg = SingleWorkspace
    /\ stdio = StdioIdle
    /\ generation = 0
    /\ HealthIdle

NextPublish ==
    \/ \E j \in JobIds : ChildStart(j)
    \/ \E j \in JobIds, o \in {"published", "failed"} : ChildFinish(j, o)
    \/ \E s \in Servers, tool \in QueryTools : query_open(s, tool)
    \/ query_metadata
    \/ query_search

SpecPublish == InitPublish /\ [][NextPublish]_vars

\* ------------------------------------------------- the branch_state table
\* The table as the set of its rows; (repo, ref) is its primary key.
Repos == {"r1", "r2"}
RefNames == {"main", "feat"}
BranchEntries == [repo : Repos, ref : RefNames,
                  last_indexed_commit : Commits, file_count : {0, 1}]
BranchKeys == [repo : Repos, ref : RefNames]
entry_key(e) == [repo |-> e.repo, ref |-> e.ref]

\* A plain INSERT without the ON CONFLICT clause, on a table without the key.
upsert_branch_state_row_plain_insert(rows, entry) == rows \cup {entry}
\* branch_state.rs upsert_branch_state: INSERT .. ON CONFLICT(repo, ref) DO
\* UPDATE SET every other column = excluded.column
upsert_branch_state_row(rows, entry) ==
    IF \E r \in rows : entry_key(r) = entry_key(entry)
    THEN {IF entry_key(r) = entry_key(entry) THEN entry ELSE r : r \in rows}
    ELSE rows \cup {entry}

\* branch_state.rs get_branch_state: query_row; Ok(Some(row)), or Ok(None)
\* on QueryReturnedNoRows.  query_row returns the first row of the result.
get_branch_state_row(rows, repo, ref) ==
    LET found == {r \in rows : r.repo = repo /\ r.ref = ref}
    IN  IF found = {} THEN {None} ELSE {Some(r) : r \in found}

\* branch_state.rs delete_branch_state: DELETE .. WHERE repo = ?1 AND ref = ?2
delete_branch_state(rows, repo, ref) ==
    {r \in rows : ~(r.repo = repo /\ r.ref = ref)}

\* One call on the table.  `last` logs, per key, the entry of the last
\* upsert or None after a delete; `before` is the table before the call.
CallUpsertBranchState(entry) ==
    /\ out.op \in {"table", "upsert", "delete", "get"}
    /\ out' = [out EXCEPT !.op = "upsert", !.key = entry_key(entry), !.got = None,
                 !.before = out.rows, !.last_before = out.last,
                 !.rows = upsert_branch_state_row(out.rows, entry),
                 !.last = [out.last EXCEPT ![entry_key(entry)] = Some(entry)]]
    /\ UNCHANGED <<jobs, proc, server, registered, disk, resp, vcs, default_ref,
                   branch_state, freshness_cfg, router_cfg, stdio, generation, hvars>>

CallDeleteBranchState(k) ==
    /\ out.op \in {"table", "upsert", "delete", "get"}
    /\ out' = [out EXCEPT !.op = "delete", !.key = k, !.got = None,
                 !.before = out.rows, !.last_before = out.last,
                 !.rows = delete_branch_state(out.rows, k.repo, k.ref),
                 !.last = [out.last EXCEPT ![k] = None]]
    /\ UNCHANGED <<jobs, proc, server, registered, disk, resp, vcs, default_ref,
                   branch_state, freshness_cfg, router_cfg, stdio, generation, hvars>>

CallGetBranchState(k) ==
    /\ out.op \in {"table", "upsert", "delete", "get"}
    /\ \E g \in get_branch_state_row(out.rows, k.repo, k.ref) :
         out' = [out EXCEPT !.op = "get", !.key = k, !.got = g,
                   !.before = out.rows, !.last_before = out.last]
    /\ UNCHANGED <<jobs, proc, server, registered, disk, resp, vcs, default_ref,
                   branch_state, freshness_cfg, router_cfg, stdio, generation, hvars>>

\* schema::create_tables: the empty table.
InitBranch ==
    /\ jobs = [j \in JobIds |-> NoRow]
    /\ proc = [j \in JobIds |-> NoProc]
    /\ server = [s \in Servers |-> "down"]
    /\ registered = {}
    /\ disk = "no_dir"
    /\ resp = NoResp
    /\ vcs = [branch |-> None, commit |-> NoCommit]
    /\ default_ref = <<>>
    /\ branch_state = <<>>
    /\ out = [op |-> "table", rows |-> {}, before |-> {},
              last |-> [k \in BranchKeys |-> None],
              last_before |-> [k \in BranchKeys |-> None],
              key |-> [repo |-> "r1", ref |-> "main"], got |-> None]
    /\ freshness_cfg = "permissive"
    /\ router_cfg = SingleWorkspace
    /\ stdio = StdioIdle
    /\ generation = 0
    /\ HealthIdle

NextBranch ==
    \/ \E e \in BranchEntries : CallUpsertBranchState(e)
    \/ \E k \in BranchKeys : CallDeleteBranchState(k)
    \/ \E k \in BranchKeys : CallGetBranchState(k)

SpecBranch == InitBranch /\ [][NextBranch]_vars

\* --------------------------------------------- the symbol_relations table
MaxSymbols == 2
Paths == {"lib", "other"}
SymbolIds == {"s1", "s2"}
LineNumbers == {1, 2}
\* The (repo, ref) pairs that get indexed: two refs of one repository and
\* the main ref of another.
IndexedRefs == {<<"r1", "main">>, <<"r1", "feat">>, <<"r2", "main">>}
\* SymbolRecord: the key columns, the name and the line range.
SymbolRecords ==
    {r \in [repo : Repos, ref : RefNames, path : Paths, symbol_id : SymbolIds,
            name : {"f"}, line_start : LineNumbers, line_end : LineNumbers] :
       r.line_start <= r.line_end /\ <<r.repo, r.ref>> \in IndexedRefs}
FileKeys == {f \in [repo : Repos, ref : RefNames, path : Paths] :
               <<f.repo, f.ref>> \in IndexedRefs}
\* The unique key of symbol_relations.
symbol_key(r) == <<r.repo, r.ref, r.path, r.symbol_id>>

\* symbols.rs insert_symbol: INSERT OR REPLACE; a row with the same unique
\* key is removed before the new row is inserted.
insert_symbol(rows, sym) ==
    {r \in rows : symbol_key(r) # symbol_key(sym)} \cup {sym}

\* The statement with the two range parameters bound the other way round.
find_symbols_by_location_swapped_range(rows, repo, ref, path, line_start, line_end) ==
    {r \in rows : /\ r.repo = repo /\ r.ref = ref /\ r.path = path
                  /\ r.line_start <= line_start /\ r.line_end >= line_end}
\* symbols.rs find_symbols_by_location: WHERE repo = ?1 AND ref = ?2 AND
\* path = ?3 AND line_start <= ?5 AND line_end >= ?4, with ?4 = line_start
\* and ?5 = line_end of the call.
find_symbols_by_location(rows, repo, ref, path, line_start, line_end) ==
    {r \in rows : /\ r.repo = repo /\ r.ref = ref /\ r.path = path
                  /\ r.line_start <= line_end /\ r.line_end >= line_start}

\* A DELETE that does not compare the ref.
delete_symbols_for_file_any_ref(rows, repo, ref, path) ==
    {r \in rows : ~(r.repo = repo /\ r.path = path)}
\* symbols.rs delete_symbols_for_file: DELETE .. WHERE repo = ?1 AND
\* ref = ?2 AND path = ?3
delete_symbols_for_file(rows, repo, ref, path) ==
    {r \in rows : ~(r.repo = repo /\ r.ref = ref /\ r.path = path)}

\* symbols.rs symbol_count: SELECT COUNT(*) .. WHERE repo = ?1 AND ref = ?2
symbol_count(rows, repo, ref) ==
    Cardinality({r \in rows : r.repo = repo /\ r.ref = ref})

SymbolOps == {"symbols", "insert", "delete_file", "find", "count"}

\* One call on the table.  `live` logs the keys inserted and not deleted
\* since.
CallInsertSymbol(sym) ==
    /\ out.op \in SymbolOps
    /\ Cardinality(insert_symbol(out.rows, sym)) <= MaxSymbols
    /\ out' = [out EXCEPT !.op = "insert", !.arg = sym, !.found = {}, !.count = 0,
                 !.rows = insert_symbol(out.rows, sym),
                 !.live = out.live \cup {symbol_key(sym)}]
    /\ UNCHANGED <<jobs, proc, server, registered, disk, resp, vcs, default_ref,
                   branch_state, freshness_cfg, router_cfg, stdio, generation, hvars>>

CallDeleteSymbolsForFile(f) ==
    /\ out.op \in SymbolOps
    /\ out' = [out EXCEPT !.op = "delete_file", !.arg = f, !.found = {}, !.count = 0,
                 !.rows = delete_symbols_for_file(out.rows, f.repo, f.ref, f.path),
                 !.live = {k \in out.live : <<k[1], k[2], k[3]>> # <<f.repo, f.ref, f.path>>}]
    /\ UNCHANGED <<jobs, proc, server, registered, disk, resp, vcs, default_ref,
                   branch_state, freshness_cfg, router_cfg, stdio, generation, hvars>>

CallFindSymbolsByLocation(f, line_start, line_end) ==
    /\ out.op \in SymbolOps
    /\ out' = [out EXCEPT !.op = "find", !.count = 0,
                 !.arg = [file |-> f, line_start |-> line_start, line_end |-> line_end],
                 !.found = find_symbols_by_location(out.rows, f.repo, f.ref, f.path,
                                                    line_start, line_end)]
    /\ UNCHANGED <<jobs, proc, server, registered, disk, resp, vcs, default_ref,
                   branch_state, freshness_cfg, router_cfg, stdio, generation, hvars>>

CallSymbolCount(repo, ref) ==
    /\ out.op \in SymbolOps
    /\ out' = [out EXCEPT !.op = "count", !.arg = [repo |-> repo, ref |-> ref],
                 !.found = {},
                 !.count = symbol_count(out.rows, repo, ref)]
    /\ UNCHANGED <<jobs, proc, server, registered, disk, resp, vcs, default_ref,
                   branch_state, freshness_cfg, router_cfg, stdio, generation, hvars>>

\* schema::create_tables: the empty table.
InitSymbols ==
    /\ jobs = [j \in JobIds |-> NoRow]
    /\ proc = [j \in JobIds |-> NoProc]
    /\ server = [s \in Servers |-> "down"]
    /\ registered = {}
    /\ disk = "no_dir"
    /\ resp = NoResp
    /\ vcs = [branch |-> None, commit |-> NoCommit]
    /\ default_ref = <<>>
    /\ branch_state = <<>>
    /\ out = [op |-> "symbols", rows |-> {}, live |-> {}, arg |-> <<>>,
              found |-> {}, count |-> 0]
    /\ freshness_cfg = "permissive"
    /\ router_cfg = SingleWorkspace
    /\ stdio = StdioIdle
    /\ generation = 0
    /\ HealthIdle

NextSymbols ==
    \/ \E sym \in SymbolRecords : CallInsertSymbol(sym)
    \/ \E f \in FileKeys : CallDeleteSymbolsForFile(f)
    \/ \E f \in FileKeys, a, b \in LineNumbers : CallFindSymbolsByLocation(f, a, b)
    \/ \E repo \in Repos, ref \in RefNames : CallSymbolCount(repo, ref)

SpecSymbols == InitSymbols /\ [][NextSymbols]_vars

\* ------------------------------------------------------------ reranking
MaxRanked == 2
\* result_ids in their lexicographic order.
IdOrder == <<"r1", "r2", "r3">>
ResultIds == {IdOrder[i] : i \in 1..Len(IdOrder)}
id_rank(id) == CHOOSE i \in 1..Len(IdOrder) : IdOrder[i] = id
RankQueries == {<<"a">>, <<"A", "b">>}
\* SearchResult: the fields rerank reads; a result without a name has no
\* qualified name.  Scores are finite.
RankResults ==
    {r \in [result_id : ResultIds,
            name : {None, Some(<<"A">>)},
            qualified_name : {None, Some(<<"m", "A", "b">>)},
            result_type : {"symbol", "snippet"},
            path : {<<"b">>, <<"A">>},
            score : {0, 1}] :
       r.qualified_name.present => r.name.present}

\* str::to_lowercase over the letters in use.
to_lowercase(str) ==
    [i \in 1..Len(str) |-> CASE str[i] = "A" -> "a"
                             [] str[i] = "B" -> "b"
                             [] OTHER        -> str[i]]
\* str::contains(&str): the pattern occurs as a contiguous substring.
contains(str, pat) ==
    \E i \in 0..(Len(str) - Len(pat)) :
        \A k \in 1..Len(pat) : str[i + k] = pat[k]

\* ranking.rs 8-35: the boost of one result.
boost(result, query_lower) ==
    (IF result.name.present /\ to_lowercase(result.name.value) = query_lower
     THEN 5 ELSE 0)
    + (IF /\ result.qualified_name.present
          /\ contains(to_lowercase(result.qualified_name.value), query_lower)
       THEN 2 ELSE 0)
    + (IF result.result_type = "symbol" THEN 1 ELSE 0)
    + (IF contains(to_lowercase(result.path), query_lower) THEN 1 ELSE 0)

\* A comparator without the tiebreak on result_id.
sorts_before_by_score_only(a, b) == a.score > b.score
\* ranking.rs 39-44: the comparator says Less: b.score.partial_cmp(&a.score)
\* then a.result_id.cmp(&b.result_id).
sorts_before(a, b) ==
    \/ a.score > b.score
    \/ a.score = b.score /\ id_rank(a.result_id) < id_rank(b.result_id)

\* slice::sort_by is a stable sort: an element goes before the first element
\* it sorts before, after every element it does not.
RECURSIVE sort_by(_)
sort_by(results) ==
    IF results = <<>> THEN <<>>
    ELSE LET sorted == sort_by(SubSeq(results, 1, Len(results) - 1))
             x == results[Len(results)]
             before == {i \in 1..Len(sorted) :
                          \A k \in 1..i : ~sorts_before(x, sorted[k])}
             n == Cardinality(before)
         IN  SubSeq(sorted, 1, n) \o <<x>> \o SubSeq(sorted, n + 1, Len(sorted))

\* ranking.rs rerank
rerank(results, query) ==
    sort_by([i \in 1..Len(results) |->
               [results[i] EXCEPT !.score = @ + boost(results[i], to_lowercase(query))]])

\* The search path reranks its candidates.
CallRerank ==
    /\ out.op = "candidates"
    /\ out' = [out EXCEPT !.op = "rerank", !.ranked = rerank(out.results, out.query)]
    /\ UNCHANGED <<jobs, proc, server, registered, disk, resp, vcs, default_ref,
                   branch_state, freshness_cfg, router_cfg, stdio, generation, hvars>>

InitRank ==
    /\ jobs = [j \in JobIds |-> NoRow]
    /\ proc = [j \in JobIds |-> NoProc]
    /\ server = [s \in Servers |-> "down"]
    /\ registered = {}
    /\ disk = "no_dir"
    /\ resp = NoResp
    /\ vcs = [branch |-> None, commit |-> NoCommit]
    /\ default_ref = <<>>
    /\ branch_state = <<>>
    /\ \E rs \in SeqsUpTo(RankResults, MaxRanked), q \in RankQueries :
         out = [op |-> "candidates", results |-> rs, query |-> q, ranked |-> <<>>]
    /\ freshness_cfg = "permissive"
    /\ router_cfg = SingleWorkspace
    /\ stdio = StdioIdle
    /\ generation = 0
    /\ HealthIdle

NextRank == CallRerank

SpecRank == InitRank /\ [][NextRank]_vars

\* ----------------------------------------- retries after an orphaned job
\* A client that keeps asking for an index of the default project.
RetryIndex(s) ==
    \E tool \in IndexTools : handle_index_or_sync(s, tool, DefaultProject, TRUE)

\* The default project is registered; no server runs yet.
InitOrphan ==
    /\ jobs = [j \in JobIds |-> NoRow]
    /\ proc = [j \in JobIds |-> NoProc]
    /\ server = [s \in Servers |-> "down"]
    /\ registered = {DefaultProject}
    /\ disk = "no_dir"
    /\ resp = NoResp
    /\ AuxIdle

NextOrphan ==
    \/ run_server
    \/ run_http_server
    \/ \E s \in Servers : ServerExit(s)
    \/ \E s \in Servers : RetryIndex(s)
    \/ \E j \in JobIds : ChildCreateRow(j)
    \/ \E j \in JobIds : ChildStart(j)
    \/ \E j \in JobIds, o \in {"published", "failed"} : ChildFinish(j, o)
    \/ \E j \in JobIds : ChildCrash(j)

\* Servers that are down get started, a live child takes its next step or
\* dies, and the client's request is served again and again while a server
\* is up; nothing forces a server to exit.
SpecOrphan ==
    /\ InitOrphan /\ [][NextOrphan]_vars
    /\ WF_vars(run_server) /\ WF_vars(run_http_server)
    /\ \A s \in Servers : SF_vars(RetryIndex(s))
    /\ \A j \in JobIds :
         WF_vars(ChildCreateRow(j) \/ ChildStart(j) \/ ChildCrash(j)
                 \/ \E o \in {"published", "failed"} : ChildFinish(j, o))

\* ------------------------------------------------ metadata and active job
\* server.rs build_metadata, the active_job of the metadata: the store is
\* asked in the Compatible arm only; ProtocolMetadata::not_indexed,
\* reindex_required and corrupt_manifest take the ref alone, so the flag
\* they carry is a value of the constructor (either one, fixed_flag).
build_metadata_active_job(schema_status, t, p, fixed_flag) ==
    IF schema_status = "Compatible" THEN has_active_job(t, p) ELSE fixed_flag

\* A tool handler builds the metadata of its response.
CallBuildMetadata(fixed_flag) ==
    /\ server["stdio"] = "serving"
    /\ LET rt == load_index_runtime(disk)
       IN  out' = [op |-> "build_metadata",
                   schema_status |-> rt.schema_status,
                   index_status |-> build_metadata(rt.schema_status),
                   active_job |-> build_metadata_active_job(rt.schema_status, jobs,
                                                            DefaultProject, fixed_flag),
                   non_terminal |-> ActiveJobs(jobs, DefaultProject)]
    /\ UNCHANGED <<jobs, proc, server, registered, disk, resp, vcs, default_ref,
                   branch_state, freshness_cfg, router_cfg, stdio, generation, hvars>>

\* The stdio server over a registered project in any state of its index; an
\* index job may have been started.
InitMeta ==
    /\ \E ph \in {"none", "spawned"} :
         proc = [j \in JobIds |-> IF j = 1 /\ ph # "none"
                                  THEN [phase |-> ph, project |-> DefaultProject]
                                  ELSE NoProc]
    /\ jobs = [j \in JobIds |-> NoRow]
    /\ server = [s \in Servers |-> IF s = "stdio" THEN "serving" ELSE "down"]
    /\ registered = {DefaultProject}
    /\ disk \in DiskStates
    /\ resp = NoResp
    /\ AuxIdle

NextMeta ==
    \/ \E fixed_flag \in BOOLEAN : CallBuildMetadata(fixed_flag)
    \/ \E d \in DiskStates : DiskEvent(d)
    \/ \E j \in JobIds : ChildCreateRow(j)
    \/ \E j \in JobIds : ChildStart(j)
    \/ \E j \in JobIds, o \in {"published", "failed"} : ChildFinish(j, o)

SpecMeta == InitMeta /\ [][NextMeta]_vars

\* ------------------------------------------------- index_status and jobs
MaxHistory == 6
RECENT_JOBS_LIMIT == 5
TerminalOutcomes == {"published", "failed"}

\* jobs::get_recent_jobs(project_id, n): the n rows of the project with the
\* latest updated_at, latest first. rows is kept in updated_at order.
get_recent_jobs(rows, n) ==
    LET len == IF Len(rows) < n THEN Len(rows) ELSE n
    IN  [i \in 1..len |-> rows[Len(rows) + 1 - i]]

\* status_tools.rs handle_index_status, last_indexed_at: the updated_at of
\* the first published row of the effective ref among the recent jobs, as
\* an Option (the empty set is null).
last_indexed_at(rows, effective_ref) ==
    LET recent_jobs == get_recent_jobs(rows, RECENT_JOBS_LIMIT)
        hits == {i \in 1..Len(recent_jobs) :
                   /\ recent_jobs[i].status = "published"
                   /\ recent_jobs[i].ref = effective_ref}
    IN  IF hits = {} THEN {}
        ELSE {recent_jobs[CHOOSE i \in hits : \A k \in hits : i <= k].updated_at}

\* An index job of the project runs to its end: its row carries the ref,
\* the terminal status and the time of the last update. One job is active
\* at a time (index_tools.rs 43), so updated_at grows along the table.
RunIndexJob(ref, outcome) ==
    /\ out.op \in {"jobs", "index_status"}
    /\ Len(out.rows) < MaxHistory
    /\ out' = [op |-> "jobs",
               rows |-> Append(out.rows, [ref |-> ref, status |-> outcome,
                                          updated_at |-> Len(out.rows) + 1]),
               ref |-> None, last_indexed_at |-> {}]
    /\ UNCHANGED <<jobs, proc, server, registered, disk, resp, vcs, default_ref,
                   branch_state, freshness_cfg, router_cfg, stdio, generation, hvars>>

\* index_status {ref}.
CallIndexStatus(effective_ref) ==
    /\ out.op \in {"jobs", "index_status"}
    /\ out' = [out EXCEPT !.op = "index_status", !.ref = effective_ref,
                          !.last_indexed_at = last_indexed_at(out.rows, effective_ref)]
    /\ UNCHANGED <<jobs, proc, server, registered, disk, resp, vcs, default_ref,
                   branch_state, freshness_cfg, router_cfg, stdio, generation, hvars>>

\* A registered project that has run no job yet.
InitHistory ==
    /\ jobs = [j \in JobIds |-> NoRow]
    /\ proc = [j \in JobIds |-> NoProc]
    /\ server = [s \in Servers |-> IF s = "stdio" THEN "serving" ELSE "down"]
    /\ registered = {DefaultProject}
    /\ disk = "no_dir"
    /\ resp = NoResp
    /\ vcs = [branch |-> None, commit |-> NoCommit]
    /\ default_ref = <<>>
    /\ branch_state = <<>>
    /\ out = [op |-> "jobs", rows |-> <<>>, ref |-> None, last_indexed_at |-> {}]
    /\ freshness_cfg = "permissive"
    /\ router_cfg = SingleWorkspace
    /\ stdio = StdioIdle
    /\ generation = 0
    /\ HealthIdle

NextHistory ==
    \/ \E ref \in RefNames, outcome \in TerminalOutcomes : RunIndexJob(ref, outcome)
    \/ \E ref \in RefNames : CallIndexStatus(ref)

SpecHistory == InitHistory /\ [][NextHistory]_vars

\* ================================================================ claims
Live(j) == proc[j].phase \in {"spawned", "queued", "writing"}
StartStep(s) == server[s] = "down" /\ server'[s] = "serving"
Swept(t) == [j \in JobIds |->
               IF t[j].status = "running"
               THEN [project |-> t[j].project, status |-> "interrupted"]
               ELSE t[j]]
StatusLabel(st) ==
    CASE st = "Compatible"      -> "compatible"
      [] st = "NotIndexed"      -> "not_indexed"
      [] st = "ReindexRequired" -> "reindex_required"
      [] st = "CorruptManifest" -> "corrupt_manifest"
AllWhitespace(str) == \A i \in 1..Len(str) : str[i] \in Whitespace

\* C1: in every reachable state each project has at most one job row in a
\* non-terminal status (queued or running).
C1_OneActiveJobPerProject ==
    \A p \in Projects :
        Cardinality({j \in JobIds : jobs[j].project = p
                                    /\ jobs[j].status \in {"queued", "running"}}) <= 1

\* C2: when the previous index_repo/sync_repo reply for a project was
\* "running" with job J and J has not reached a terminal status, the next
\* index_repo/sync_repo for that project is rejected with index_in_progress
\* and the next index_status reports active_job.job_id = J.
C2_BackToBackRejected ==
    [][\A s \in Servers, p \in Projects :
         (/\ resp.tool \in IndexTools
          /\ resp.code = "running"
          /\ resp.project = p
          /\ jobs[resp.job_id].status \notin Terminal)
         => /\ \A tool \in IndexTools, ok \in BOOLEAN :
                 handle_index_or_sync(s, tool, p, ok)
                 => resp'.code = "index_in_progress"
            /\ handle_index_status(s, p) => resp'.active_job = resp.job_id]_vars

C4_SingleWriter ==
    \A p \in Projects :
        Cardinality({j \in JobIds : proc[j].phase = "writing"
                                    /\ proc[j].project = p}) <= 1

\* C5: each transport entry point sweeps before it serves: when a server
\* process starts serving, no row that an earlier session left in status
\* running (its indexer is gone) is still running, so no request of the new
\* session can observe it as the active job.
C5_SweepBeforeServing ==
    [][\A s \in Servers :
         StartStep(s) =>
           \A j \in JobIds :
             (jobs[j].status = "running" /\ ~Live(j)) => jobs'[j].status # "running"]_vars

\* C6: a server start modifies no job row whose indexer child is still alive.
C6_SweepOnlyOrphans ==
    [][\A s \in Servers :
         StartStep(s) => \A j \in JobIds : Live(j) => jobs'[j] = jobs[j]]_vars

\* C7: the sweep turns every running row into interrupted and returns the
\* number of rows it transitioned; a second sweep of its result changes
\* nothing and returns 0.
C7_SweepIdempotent ==
    [][StartStep("http") =>
         /\ jobs' = Swept(jobs)
         /\ mark_interrupted_jobs(jobs).count
              = Cardinality({j \in JobIds : jobs[j].status = "running"})
         /\ mark_interrupted_jobs(jobs').rows = jobs'
         /\ mark_interrupted_jobs(jobs').count = 0]_vars

\* C7 witness: a sweep has transitioned a running row.
C7_Witness ==
    /\ server["http"] = "serving"
    /\ \E j \in JobIds : jobs[j].status = "interrupted"
    /\ mark_interrupted_jobs(jobs).count = 0

C9_CorruptIffMarkerUnparsable ==
    LET rt == load_index_runtime(disk)
    IN  /\ rt.schema_status \in {"Compatible", "NotIndexed", "ReindexRequired", "CorruptManifest"}
        /\ rt.index_set <=> rt.schema_status = "Compatible"
        /\ (rt.compatibility_reason # "None") <=> rt.schema_status # "Compatible"
        /\ rt.schema_status = "NotIndexed" <=> disk \in {"no_dir", "no_marker"}
        /\ rt.schema_status = "ReindexRequired" <=> disk = "old_schema"
        /\ rt.schema_status = "CorruptManifest" <=> disk = "bad_marker"

\* C9 (amended): as stated, except that CorruptManifest is returned for
\* every other open failure: an unparsable marker (reason "Index appears
\* corrupted"), a shard that fails to open or an I/O error other than
\* NotFound (reason "Index open failed").
C9_CorruptIffOtherOpenFailure ==
    LET rt == load_index_runtime(disk)
    IN  /\ rt.schema_status \in {"Compatible", "NotIndexed", "ReindexRequired", "CorruptManifest"}
        /\ rt.index_set <=> rt.schema_status = "Compatible"
        /\ (rt.compatibility_reason # "None") <=> rt.schema_status # "Compatible"
        /\ rt.schema_status = "NotIndexed" <=> disk \in {"no_dir", "no_marker"}
        /\ rt.schema_status = "ReindexRequired" <=> disk = "old_schema"
        /\ rt.schema_status = "CorruptManifest"
             <=> disk \in {"bad_marker", "shard_broken", "io_denied"}
        /\ rt.compatibility_reason = "Index appears corrupted" <=> disk = "bad_marker"
        /\ rt.compatibility_reason = "Index open failed"
             <=> disk \in {"shard_broken", "io_denied"}

\* C9 witness: a request was answered from an index whose shard failed to
\* open, classified corrupt_manifest with reason "Index open failed".
C9_Witness ==
    /\ disk = "shard_broken"
    /\ resp.code = "index_incompatible"
    /\ resp.index_status = "corrupt_manifest"
    /\ resp.reason = "Index open failed"

\* C10: locate_symbol/search_code with an absent, empty or whitespace-only
\* name/query answer invalid_input with metadata and run no query, in every
\* index status.
C10_BlankIsInvalidInput ==
    [][\A tool \in QueryTools, a \in Arguments, q \in QueryOutcomes :
         (/\ handle_tool_call("stdio", tool, DefaultProject, a, q)
          /\ AllWhitespace(arg_str(a)))
         => /\ resp'.code = "invalid_input"
            /\ resp'.index_status = StatusLabel(load_index_runtime(disk).schema_status)
            /\ ~resp'.executed]_vars

\* C10 witness: invalid_input was returned while the index was compatible.
C10_Witness ==
    /\ resp.tool \in QueryTools
    /\ resp.code = "invalid_input"
    /\ resp.index_status = "compatible"
    /\ ~resp.executed

\* C11 (as stated): resolve_tool_ref returns the explicit ref argument when
\* one is given; otherwise the HEAD branch when it is detected; otherwise
\* Project.default_ref when the project row exists and the value is
\* non-empty; otherwise "live".
C11_DefaultRefWhenNonEmpty ==
    out.op = "resolve_tool_ref" =>
        out.ref = IF out.requested.present THEN out.requested.value
                  ELSE IF vcs.branch.present THEN vcs.branch.value
                  ELSE IF DefaultProject \in registered /\ default_ref # <<>>
                  THEN default_ref
                  ELSE REF_LIVE

\* C11 (amended): the third case applies when the project row can be read
\* from the store and default_ref is not blank (non-empty after trimming
\* whitespace); a blank default_ref or an unreadable row gives "live".
C11_DefaultRefWhenReadableNonBlank ==
    out.op = "resolve_tool_ref" =>
        out.ref = IF out.requested.present THEN out.requested.value
                  ELSE IF vcs.branch.present THEN vcs.branch.value
                  ELSE IF /\ out.conn = "ok"
                          /\ DefaultProject \in registered
                          /\ ~AllWhitespace(default_ref)
                  THEN default_ref
                  ELSE REF_LIVE

\* A request without ref, no HEAD branch, answered with default_ref.
C11_Witness ==
    /\ out.op = "resolve_tool_ref"
    /\ ~out.requested.present
    /\ ~vcs.branch.present
    /\ DefaultProject \in registered
    /\ ~AllWhitespace(default_ref)
    /\ out.ref = default_ref

\* C12: is_ref_stale is true iff a BranchState row for the ref exists, the
\* current branch equals the ref and the HEAD commit differs from
\* last_indexed_commit; it is false when the store or VCS is unavailable
\* or a lookup fails.
C12_StaleIffRowBranchCommit ==
    out.op = "is_ref_stale" =>
        (out.stale <=>
            /\ out.conn = "ok"
            /\ out.requested.value \in DOMAIN branch_state
            /\ branch_state[out.requested.value] # NoCommit
            /\ vcs.branch.present
            /\ vcs.branch.value = out.requested.value
            /\ vcs.commit # NoCommit
            /\ vcs.commit # branch_state[out.requested.value])

\* The oracle answered stale for the checked-out branch.
C12_Witness ==
    /\ out.op = "is_ref_stale"
    /\ out.stale
    /\ vcs.branch = out.requested
    /\ branch_state[out.requested.value] # vcs.commit

\* A step of a locate_symbol / search_code handler: it leaves the store and
\* the working tree alone and at most starts a child.
QueryStep ==
    /\ resp'.tool \in QueryTools
    /\ jobs' = jobs /\ vcs' = vcs /\ branch_state' = branch_state
    /\ \A j \in JobIds : proc[j] # NoProc => proc'[j] = proc[j]
    /\ <<resp, out, proc>>' # <<resp, out, proc>>
\* The handler got as far as the freshness enforcement: the argument was
\* valid and the index compatible.
Enforced(o) == o.op = "check_and_enforce_freshness"
\* The policy in effect for a request.
EffectivePolicy(o) == IF o.policy_arg = "absent" THEN freshness_cfg ELSE o.policy_arg
\* The ref is stale as the oracle defines it: a row for the ref, the ref
\* checked out, another HEAD commit than the indexed one, the store readable.
StaleRef(conn, ref) ==
    /\ conn = "ok"
    /\ ref \in DOMAIN branch_state
    /\ branch_state[ref] # NoCommit
    /\ vcs.branch = Some(ref)
    /\ vcs.commit \notin {NoCommit, branch_state[ref]}

\* C13: under the strict policy a query against a stale ref is answered
\* with index_stale, whose data carries BranchState.last_indexed_commit and
\* the HEAD commit, and the search is not executed.
C13_StrictStaleBlocks ==
    [][(QueryStep /\ Enforced(out') /\ EffectivePolicy(out') = "strict"
        /\ StaleRef(out'.conn, out'.ref))
       => /\ resp'.code = "index_stale"
          /\ out'.last_indexed_commit = branch_state[out'.ref]
          /\ out'.current_head = vcs.commit
          /\ ~resp'.executed]_vars

\* index_stale with last_indexed_commit A and current_head B.
C13_Witness ==
    /\ resp.code = "index_stale"
    /\ Enforced(out)
    /\ out.last_indexed_commit = "A"
    /\ out.current_head = "B"
    /\ ~resp.executed

\* C14: a query is answered with index_stale only under the strict policy
\* and a stale ref; under permissive and advisory an enforced query always
\* runs, and without a detectable HEAD or without a BranchState row no
\* policy blocks it.
C14_BlockedOnlyStrictStale ==
    [][QueryStep =>
        /\ resp'.code = "index_stale"
             => /\ Enforced(out')
                /\ EffectivePolicy(out') = "strict"
                /\ StaleRef(out'.conn, out'.ref)
        /\ (Enforced(out') /\ EffectivePolicy(out') \in {"permissive", "advisory"})
             => resp'.executed
        /\ (Enforced(out')
            /\ (~vcs.branch.present \/ vcs.commit = NoCommit
                \/ get_branch_state("ok", branch_state, out'.ref) = NoCommit))
             => resp'.executed]_vars

\* A query against a stale ref that ran under advisory.
C14_Witness ==
    /\ Enforced(out)
    /\ resp.executed
    /\ out.freshness = "stale"
    /\ EffectivePolicy(out) = "advisory"

\* C15: under advisory a stale query runs; it enqueues an async sync when
\* no sync was enqueued in the process before, and enqueues none when one
\* was (here: one that has already ended).
C15_SyncEnqueuedOnce ==
    [][(QueryStep /\ Enforced(out') /\ EffectivePolicy(out') = "advisory"
        /\ StaleRef(out'.conn, out'.ref)
        /\ \A j \in JobIds : proc[j].phase \in {"none", "exited"})
       => /\ resp'.executed
          /\ IF \A j \in JobIds : proc[j] = NoProc
             THEN proc' # proc
             ELSE proc' = proc]_vars

\* A health response is produced: GET /health or the health_check tool.
HealthStep == out' # out /\ out'.op \in {"GET /health", "health_check"}
\* An aggregate response: no workspace filter, no workspace error.
Aggregate(o) == o.ws = "absent" /\ o.payload.code = "ok"
\* No error condition: the store opens, a project is registered, every
\* registered project's index and the server's own index are Compatible,
\* prewarm has not failed.
NoErrorCondition(o) ==
    /\ o.conn = "ok"
    /\ registered # {}
    /\ \A p \in registered \cup {DefaultProject} :
         project_schema_status(p, disk, disk2) = "Compatible"
    /\ prewarm_status # PREWARM_FAILED
\* Some registered project has a queued or running job row.
AnyActiveJob ==
    \E j \in JobIds : jobs[j].project \in registered /\ jobs[j].status \in NonTerminal

\* C16: without an error condition, GET /health and health_check report
\* 'indexing' if a project has an active job, else 'warming' if prewarm is
\* in progress, else 'ready' (precedence error > indexing > warming > ready).
C16_IndexingBeforeWarming ==
    [][(HealthStep /\ Aggregate(out') /\ NoErrorCondition(out'))
       => out'.payload.status =
             IF AnyActiveJob THEN "indexing"
             ELSE IF prewarm_status = PREWARM_IN_PROGRESS THEN "warming"
             ELSE "ready"]_vars

\* C17: without an error condition, GET /health and health_check report
\* 'warming' if prewarm is in progress, else 'indexing' if a project has an
\* active job, else 'ready' (priority error, warming, indexing, ready).
C17_WarmingBeforeIndexing ==
    [][(HealthStep /\ Aggregate(out') /\ NoErrorCondition(out'))
       => out'.payload.status =
             IF prewarm_status = PREWARM_IN_PROGRESS THEN "warming"
             ELSE IF AnyActiveJob THEN "indexing"
             ELSE "ready"]_vars

\* The status fields the other entry point computes for the same store,
\* index, prewarm state and get_active_job results.
OtherPayload(o) ==
    IF o.op = "GET /health"
    THEN health_check_payload("absent", o.conn, registered, jobs, o.act,
                              prewarm_status, disk, disk2)
    ELSE build_health_response_uncached(o.conn, registered, jobs, o.act,
                                        prewarm_status, disk, disk2)

\* C18: for the same store, index and prewarm state the GET /health body
\* and the health_check payload agree on the overall status, on active_job
\* and on every project's index_status.
C18_SameStatusFields ==
    [][(HealthStep /\ Aggregate(out'))
       => /\ out'.payload.status = OtherPayload(out').status
          /\ out'.payload.active_job = OtherPayload(out').active_job
          /\ out'.payload.job_status = OtherPayload(out').job_status
          /\ out'.payload.index_status = OtherPayload(out').index_status]_vars

ServedCached == out' # out /\ out'.op = "GET /health" /\ out'.cached
LookupMissed == \E w \in HealthThreads : hreq[w].phase = "idle" /\ hreq'[w].phase = "miss"
ServedRecomputed == out' # out /\ out'.op = "GET /health" /\ ~out'.cached

\* C20: GET /health answers from the cache iff the cell holds a payload
\* stored less than HEALTH_CACHE_TTL earlier, and the answer is that
\* payload; a request that finds none recomputes, and its answer is the
\* payload it stores with the current time; no answer carries a payload
\* stored HEALTH_CACHE_TTL or more earlier, whatever the interleaving.
C20_CacheTtl ==
    [][/\ (ServedCached \/ LookupMissed)
          => (ServedCached <=>
                (health_cache.present
                 /\ now - health_cache.cached_at < HEALTH_CACHE_TTL * TicksPerSecond))
       /\ ServedCached
          => /\ out'.payload = health_cache.payload
             /\ out'.age = now - health_cache.cached_at
             /\ out'.age < HEALTH_CACHE_TTL * TicksPerSecond
       /\ ServedRecomputed
          => /\ \E w \in HealthThreads :
                  /\ hreq[w].phase = "computed"
                  /\ hreq[w].payload = out'.payload
                  /\ hreq'[w].phase = "idle"
             /\ health_cache' = [present |-> TRUE, cached_at |-> now,
                                 payload |-> out'.payload]]_vars

\* A cached answer one tick before expiry of a payload stored after an
\* earlier one expired, while another request is about to overwrite it.
C20_Witness ==
    /\ out.op = "GET /health"
    /\ out.cached
    /\ out.age = HEALTH_CACHE_TTL * TicksPerSecond - 1
    /\ health_cache.present
    /\ health_cache.cached_at >= HEALTH_CACHE_TTL * TicksPerSecond
    /\ \E w \in HealthThreads : hreq[w].phase = "computed"

\* C21: PrewarmState only advances: pending to in_progress or skipped,
\* in_progress to complete or failed; complete, failed and skipped are
\* never left.
C21_PrewarmMonotonic ==
    [][prewarm_status' # prewarm_status
       => \/ /\ prewarm_status = PREWARM_PENDING
             /\ prewarm_status' \in {PREWARM_IN_PROGRESS, PREWARM_SKIPPED}
          \/ /\ prewarm_status = PREWARM_IN_PROGRESS
             /\ prewarm_status' \in {PREWARM_COMPLETE, PREWARM_FAILED}]_vars

\* A server whose prewarm ran to an end and that answered GET /health since.
C21_Witness ==
    /\ server["http"] = "serving"
    /\ prewarm_status \in {PREWARM_COMPLETE, PREWARM_FAILED}
    /\ out.op = "GET /health"

\* C22: while prewarm is in progress and no error condition holds, health
\* (GET /health, or health_check over all projects or over the default
\* one) reports index_status 'warming' for the default project.
C22_WarmingDuringPrewarm ==
    [][(HealthStep /\ out'.payload.code = "ok" /\ NoErrorCondition(out')
        /\ out'.ws \in {"absent", DefaultProject}
        /\ DefaultProject \in registered
        /\ prewarm_status = PREWARM_IN_PROGRESS)
       => out'.payload.index_status[DefaultProject] = "warming"]_vars

\* What makes two results the same: the symbol_stable_id when present and
\* non-empty, else the fallback tuple.
SearchIdentity(r) ==
    IF r.symbol_stable_id.present /\ r.symbol_stable_id.value # <<>>
    THEN <<"id", r.symbol_stable_id.value>>
    ELSE <<"tuple", r.result_type, r.path, r.line_start, r.line_end,
           IF r.name.present THEN r.name.value ELSE <<>>>>
LocateIdentity(r) ==
    IF r.symbol_stable_id # <<>> THEN <<"id", r.symbol_stable_id>>
    ELSE <<"tuple", r.path, r.line_start, r.line_end, r.name>>
OutIdentity(r) ==
    IF out.op = "dedup_search_results" THEN SearchIdentity(r) ELSE LocateIdentity(r)
\* The positions of the results that no earlier result is the same as.
FirstPositions ==
    {i \in 1..Len(out.results) :
        \A j \in 1..(i - 1) : OutIdentity(out.results[j]) # OutIdentity(out.results[i])}
Deduped == out.op \in {"dedup_search_results", "dedup_locate_results"}

\* C23: after a dedup no two results are the same, the output is the
\* subsequence of the first occurrences in input order, and suppressed is
\* the input length minus the output length.
C23_DedupFirstOccurrences ==
    Deduped =>
        /\ \A i, j \in 1..Len(out.deduped) :
             OutIdentity(out.deduped[i]) = OutIdentity(out.deduped[j]) => i = j
        /\ Len(out.deduped) = Cardinality(FirstPositions)
        /\ \A i \in 1..Len(out.deduped) :
             LET pos == CHOOSE p \in FirstPositions :
                          Cardinality({q \in FirstPositions : q <= p}) = i
             IN  out.deduped[i] = out.results[pos]
        /\ out.suppressed = Len(out.results) - Len(out.deduped)

\* C24: after a dedup the aligned reasons are numbered by surviving
\* position, and the i-th carries the score of the reasons row of the
\* result that survives at position i.
C24_ReasonsAligned ==
    out.op = "dedup_search_results" =>
        /\ Len(out.aligned) <= Len(out.deduped)
        /\ \A i \in 1..Len(out.aligned) :
             /\ out.aligned[i].result_index = i - 1
             /\ out.results[out.kept_indices[i] + 1] = out.deduped[i]
             /\ out.reasons[out.kept_indices[i] + 1].result_index = out.kept_indices[i]
             /\ out.aligned[i].score = out.reasons[out.kept_indices[i] + 1].score

\* A dedup that suppressed the first of three results' duplicate and
\* renumbered the reasons row of the third result.
C24_Witness ==
    /\ out.op = "dedup_search_results"
    /\ ~out.again
    /\ out.kept_indices = <<0, 2>>
    /\ Len(out.aligned) = 2
    /\ out.aligned[2].result_index = 1
    /\ out.aligned[2].score = 3

\* C25: a dedup of the output of a dedup returns the same list in the same
\* order with suppressed = 0.
C25_DedupIdempotent ==
    (Deduped /\ out.again) => (out.deduped = out.results /\ out.suppressed = 0)

\* The second dedup, over a list of at least two results.
C25_Witness ==
    /\ Deduped
    /\ out.again
    /\ Len(out.results) >= 2
    /\ out.deduped = out.results
    /\ out.suppressed = 0

Enforced26 == out.op = "enforce_payload_safety_limit"
\* max_response_bytes, 0 meaning the default.
EffectiveLimit == IF out.max_bytes = 0 THEN DEFAULT_MAX_RESPONSE_BYTES ELSE out.max_bytes

\* C26 (as stated): the returned list serialises to at most
\* max_response_bytes, and safety_limit_applied is set if a result was
\* dropped.
C26_WithinLimit ==
    Enforced26 =>
        /\ json_array_len(out.filtered) <= EffectiveLimit
        /\ Len(out.filtered) < Len(out.results) => out.safety_limit_applied

\* C26 (amended): the returned list serialises to at most
\* max_response_bytes, or is empty (the 2 bytes of '[]') when
\* max_response_bytes is 1; safety_limit_applied is set if a result was
\* dropped.
C26_WithinLimitOrEmpty ==
    Enforced26 =>
        /\ \/ json_array_len(out.filtered) <= EffectiveLimit
           \/ (out.max_bytes = 1 /\ out.filtered = <<>>)
        /\ Len(out.filtered) < Len(out.results) => out.safety_limit_applied

\* A list cut by the default limit after its first result.
C26_Witness ==
    /\ Enforced26
    /\ out.max_bytes = 0
    /\ Len(out.filtered) = 1
    /\ Len(out.results) > 1
    /\ out.safety_limit_applied

\* A tools/call for a known tool was answered.
ToolsCallStep == out' # out /\ out'.op = "tools/call" /\ out'.tool \in KnownTools
Synthetic(o) == "indexing_status" \in DOMAIN o.text

\* C27: every tools/call response for a known tool, on either transport
\* and including the synthetic 'indexing' payload, is a JSON-RPC success
\* whose payload has a metadata object; a domain error is {error, metadata}
\* in the tool text.
C27_MetadataAlways ==
    [][ToolsCallStep
       => /\ out'.rpc = "result"
          /\ "metadata" \in DOMAIN out'.text
          /\ "error" \in DOMAIN out'.text
               => DOMAIN out'.text = {"error", "metadata"}]_vars

\* A router refusal answered over HTTP as a domain error with metadata.
C27_Witness ==
    /\ out.op = "tools/call"
    /\ out.transport = "http"
    /\ out.tool \in KnownTools
    /\ out.rpc = "result"
    /\ "error" \in DOMAIN out.text
    /\ out.text.error.code = "workspace_not_allowed"
    /\ "metadata" \in DOMAIN out.text

\* The index directory of a project.
ProjectDisk(p) == IF p = DefaultProject THEN disk ELSE disk2

LinesDone == IF stdio.pc = "write" \/ (stdio.pc = "done" /\ stdio.write_error)
             THEN stdio.pos - 1 ELSE stdio.pos
\* The non-blank lines among the first n, in input order.
RECURSIVE NonBlankUpTo(_)
NonBlankUpTo(n) ==
    IF n = 0 THEN <<>>
    ELSE IF trim(stdio.input[n]) = <<>> THEN NonBlankUpTo(n - 1)
    ELSE Append(NonBlankUpTo(n - 1), n)
\* The line is the text of one request object.
WellFormed(line) ==
    \E c \in RequestTokens :
        line \in {<<c>>, <<" ", c>>, <<c, " ">>, <<" ", c, " ">>}

\* C28: while stdout can be written, the replies written are one per
\* non-blank line handled so far, in input order; a line that is not the
\* text of a request gets error -32700 with null id; every reply is flushed
\* before the next line is read; the loop ends only at the end of stdin or
\* on an I/O error.
C28_OneReplyPerLine ==
    (stdio.pc # "done" \/ ~stdio.write_error) =>
        /\ Len(stdio.output) = Len(NonBlankUpTo(LinesDone))
        /\ \A k \in 1..Len(stdio.output) :
             LET line == stdio.input[NonBlankUpTo(LinesDone)[k]]
             IN  IF WellFormed(line)
                 THEN stdio.output[k].code # -32700
                 ELSE stdio.output[k] = [id |-> "null", rpc |-> "error", code |-> -32700]
        /\ stdio.pc \in {"read", "write"} => stdio.flushed = Len(stdio.output)
        /\ stdio.pc = "flush" => stdio.flushed = Len(stdio.output) - 1
        /\ (stdio.pc = "done" /\ ~stdio.read_error) => stdio.pos = Len(stdio.input)

\* The loop reached the end of a stdin of a broken line, a blank line and a
\* request, with two replies written and flushed.
C28_Witness ==
    /\ stdio.pc = "done"
    /\ ~stdio.read_error /\ ~stdio.write_error
    /\ stdio.input = <<<<"{">>, <<" ">>, <<"R">>>>
    /\ Len(stdio.output) = 2
    /\ stdio.output[1].code = -32700
    /\ stdio.output[2] = [id |-> 1, rpc |-> "result", code |-> 0]
    /\ stdio.flushed = 2

\* The response of a served query carries results and metadata.
Served(o) == o.op = "query" /\ o.pc = "done" /\ o.code = "ok"

\* C30: the results of a served query (full-text index) and its metadata
\* (relational store) come from the same published state of the project:
\* both from before the job published or both from after.
C30_OneStatePerQuery ==
    Served(out) => out.results_at = out.store_at

\* C31: a step of the index_repo/sync_repo handler leaves the job rows, the
\* project rows, the branch_state rows and the index as they were, whatever
\* the outcome; when the spawn fails the reply is internal_error and no
\* child exists.
C31_HandlerWritesNoJobRow ==
    [][\A ok \in BOOLEAN :
         (/\ resp'.tool \in IndexTools
          /\ handle_index_or_sync(resp'.server, resp'.tool, resp'.project, ok))
         => /\ jobs' = jobs
            /\ registered' = registered
            /\ branch_state' = branch_state
            /\ disk' = disk
            /\ (/\ ~ok
                /\ is_project_registered(registered, resp'.project)
                /\ ~has_active_job(jobs, resp'.project))
               => (resp'.code = "internal_error" /\ proc' = proc)]_vars

\* A spawn failed over a store that holds the row of an ended job, and no
\* child of the failed request exists.
C31_Witness ==
    /\ resp.tool \in IndexTools
    /\ resp.code = "internal_error"
    /\ \E j \in JobIds : jobs[j].status \in Terminal
    /\ \A j \in JobIds : ~Live(j)

TableOp == out.op \in {"table", "upsert", "delete", "get"}

\* C32: after any sequence of upserts and deletes the table has at most one
\* row per (repo, ref); a lookup returns the entry of the last upsert of the
\* key, or None when the key was never upserted or was deleted since; an
\* upsert that repeats the last upsert of its key leaves the table as it was.
C32_UpsertKeyedLastWins ==
    TableOp =>
        /\ \A k \in BranchKeys :
             /\ Cardinality({r \in out.rows : entry_key(r) = k}) <= 1
             /\ get_branch_state_row(out.rows, k.repo, k.ref) = {out.last[k]}
        /\ out.op = "get" => out.got = out.last[out.key]
        /\ (out.op = "upsert" /\ out.last_before[out.key] = out.last[out.key])
           => out.rows = out.before

\* An upsert replaced the row of a key by other values while another key
\* keeps its row.
C32_Witness ==
    /\ TableOp
    /\ out.op = "upsert"
    /\ out.last_before[out.key].present
    /\ out.last_before[out.key] # out.last[out.key]
    /\ Cardinality(out.rows) = 2
    /\ Cardinality(out.before) = 2

\* C33: a lookup by location returns the stored symbols of the given repo,
\* ref and path whose line range meets the queried one (line_start <= Q.end
\* and line_end >= Q.start), all of them and no others.
C33_FindByLocationOverlap ==
    (out.op = "find") =>
        \A r \in SymbolRecords :
            r \in out.found <=>
                /\ r \in out.rows
                /\ <<r.repo, r.ref, r.path>> =
                      <<out.arg.file.repo, out.arg.file.ref, out.arg.file.path>>
                /\ r.line_start <= out.arg.line_end
                /\ r.line_end >= out.arg.line_start

\* A lookup found one of two stored symbols of a file: the one on line 1 is
\* met by the queried range 1..2 without containing it, the other file's
\* symbol is left out.
C33_Witness ==
    /\ out.op = "find"
    /\ out.arg.line_start = 1 /\ out.arg.line_end = 2
    /\ Cardinality(out.found) = 1
    /\ \E r \in out.found : r.line_start = 1 /\ r.line_end = 1
    /\ \E r \in out.rows : r.path # out.arg.file.path /\ r.line_start = 1

\* C34: the count of a (repo, ref) is the number of keys inserted for it and
\* not deleted since; an insert with an existing key replaces the row; a
\* delete by file removes every row of the file and leaves every row of
\* another path, ref or repo as it was.
C34_CountAndDeleteFrame ==
    [][/\ out'.op \in SymbolOps
       /\ out'.op = "count" =>
            out'.count = Cardinality({k \in out.live :
                            k[1] = out'.arg.repo /\ k[2] = out'.arg.ref})
       /\ out'.op = "insert" =>
            /\ out'.arg \in out'.rows
            /\ \A r \in out'.rows : symbol_key(r) = symbol_key(out'.arg) => r = out'.arg
       /\ out'.op = "delete_file" =>
            \A r \in SymbolRecords :
                IF <<r.repo, r.ref, r.path>> =
                      <<out'.arg.repo, out'.arg.ref, out'.arg.path>>
                THEN r \notin out'.rows
                ELSE r \in out'.rows <=> r \in out.rows]_vars

\* After a delete by file the table keeps a row of the same repo and path
\* under another ref and a row of the same repo and ref under another path.
C34_Witness ==
    /\ out.op = "delete_file"
    /\ \E r \in out.rows :
         r.repo = out.arg.repo /\ r.path = out.arg.path /\ r.ref # out.arg.ref
    /\ \E r \in out.rows :
         r.repo = out.arg.repo /\ r.ref = out.arg.ref /\ r.path # out.arg.path

Orderings(n) == {p \in [1..n -> 1..n] : \A i, j \in 1..n : p[i] = p[j] => i = j}
\* The boosts as stated: the name compared without regard to case; the
\* qualified name and the path searched for the query as given, or, when
\* lowered is set, with both sides lowercased.
StatedBoost(r, q, lowered) ==
    LET qn == IF lowered THEN to_lowercase(r.qualified_name.value) ELSE r.qualified_name.value
        path == IF lowered THEN to_lowercase(r.path) ELSE r.path
        query == IF lowered THEN to_lowercase(q) ELSE q
    IN  (IF r.name.present /\ to_lowercase(r.name.value) = to_lowercase(q) THEN 5 ELSE 0)
        + (IF r.qualified_name.present /\ contains(qn, query) THEN 2 ELSE 0)
        + (IF r.result_type = "symbol" THEN 1 ELSE 0)
        + (IF contains(path, query) THEN 1 ELSE 0)
Reranked(lowered) ==
    LET n == Len(out.results)
    IN  /\ Len(out.ranked) = n
        /\ \E p \in Orderings(n) :
             \A i \in 1..n :
                out.ranked[i] = [out.results[p[i]] EXCEPT
                    !.score = @ + StatedBoost(out.results[p[i]], out.query, lowered)]
        /\ \A i, j \in 1..n :
             i < j => \/ out.ranked[i].score > out.ranked[j].score
                      \/ /\ out.ranked[i].score = out.ranked[j].score
                         /\ id_rank(out.ranked[i].result_id) <= id_rank(out.ranked[j].result_id)
        /\ (\A i, j \in 1..n : out.results[i].result_id = out.results[j].result_id => i = j)
           => \A p \in Orderings(n) :
                 rerank([i \in 1..n |-> out.results[p[i]]], out.query) = out.ranked

\* C35 as stated: the scores grow by 5 / 2 / 1 / 1 with the qualified name
\* and the path searched for the query as given; the output is sorted by
\* score descending, then result_id ascending, and for distinct result_ids
\* is the same for every order of the input.
C35_RerankAsGiven ==
    out.op = "rerank" => Reranked(FALSE)

\* C35 amended: the same with the qualified name, the path and the query
\* lowercased before the search for the query.
C35_RerankLowercased ==
    out.op = "rerank" => Reranked(TRUE)

\* Two results with distinct ids came in the order opposite to the output's:
\* the first input has the lower final score; the second got the boosts for
\* a name and a path that differ from the query in case only.
C35_Witness ==
    /\ out.op = "rerank"
    /\ Len(out.results) = 2
    /\ out.results[1].result_id # out.results[2].result_id
    /\ out.ranked[1].result_id = out.results[2].result_id
    /\ out.query = <<"a">>
    /\ out.results[2].path = <<"A">>
    /\ out.results[2].qualified_name.present
    /\ out.ranked[1].score = out.results[2].score + 5 + 2 + 1
                             + (IF out.results[2].result_type = "symbol" THEN 1 ELSE 0)

\* C36: a query is gated by the index as it is on disk when the request is
\* served: over a compatible index it runs, although the server started
\* without one; over an absent or incompatible index it does not run and is
\* answered with the compatibility error and the metadata of that open
\* failure.
C36_StatusLoadedPerRequest ==
    [][\A tool \in QueryTools, a \in Arguments, q \in QueryOutcomes :
         (/\ handle_tool_call("stdio", tool, DefaultProject, a, q)
          /\ ~AllWhitespace(arg_str(a)))
         => IF open_existing(disk) = "Ok"
            THEN /\ resp'.executed
                 /\ resp'.index_status = "compatible"
            ELSE /\ ~resp'.executed
                 /\ resp'.code \in {"index_incompatible", "project_not_found"}
                 /\ resp'.code = "index_incompatible" =>
                      resp'.reason = classify_index_open_error(open_existing(disk)).reason
                 /\ resp'.index_status =
                      StatusLabel(classify_index_open_error(open_existing(disk)).schema_status)]_vars

\* The server started without an index; a query ran after the index was
\* published.
C36_Witness ==
    /\ server["stdio"] = "serving"
    /\ disk = "ok"
    /\ resp.tool \in QueryTools
    /\ resp.executed
    /\ resp.code = "ok"
    /\ resp.index_status = "compatible"

\* The child of job j has terminated and left the row of the default
\* project in a non-terminal status.
Orphaned(j) ==
    /\ proc[j].phase = "exited"
    /\ jobs[j].project = DefaultProject
    /\ jobs[j].status \in NonTerminal

\* C37: once an indexer child has terminated leaving its row queued or
\* running, a later index request for the project is eventually admitted
\* (as long as the bounded model has a job id left to give out).
C37_OrphanEventuallyAdmitted ==
    \A j \in JobIds :
        Orphaned(j) ~> \/ /\ resp.tool \in IndexTools
                          /\ resp.project = DefaultProject
                          /\ resp.spawned
                          /\ resp.job_id # j
                       \/ FreshIds = {}

\* C38: the metadata of a response has active_job = true iff the project
\* has a job row in a non-terminal status when the request is served, in
\* every schema status.
C38_ActiveJobIffNonTerminal ==
    out.op = "build_metadata" => (out.active_job <=> out.non_terminal # {})

\* The published jobs of the ref named in the index_status call.
PublishedFor(o) ==
    {i \in 1..Len(o.rows) : o.rows[i].status = "published" /\ o.rows[i].ref = o.ref}

\* C39: after any sequence of index jobs, index_status reports a
\* last_indexed_at for the effective ref iff the project has a published
\* job of that ref, and the value is the updated_at of the latest of them.
C39_LastIndexedAtOfLatestPublished ==
    out.op = "index_status" =>
        /\ out.last_indexed_at # {} <=> PublishedFor(out) # {}
        /\ \A i \in PublishedFor(out) :
             (\A k \in PublishedFor(out) : k <= i)
                 => out.last_indexed_at = {out.rows[i].updated_at}

\* C40: whenever a non-status tool call is answered with the synthetic
\* 'indexing' payload, the bootstrap of that workspace has succeeded (the
\* project is registered and its index job started, so that its index gets
\* published); the payload is not returned when the bootstrap failed.
C40_SyntheticImpliesJobStarted ==
    [][(ToolsCallStep /\ Synthetic(out') /\ ~is_status_tool(out'.tool))
       => out'.project \in registered']_vars
====
